---- MODULE Spec2Model ----
(***************************************************************************)
(* DDL generator of the StarUML PostgreSQL extension (src/generator.js).   *)
(*                                                                         *)
(* Text is a sequence of atoms.  An atom is one character, for every text  *)
(* the generator inspects (names, types, documentation), or one literal    *)
(* fragment of a statement template, which the generator only emits.       *)
(* String concatenation is \o.                                             *)
(***************************************************************************)
EXTENDS Integers, Sequences, FiniteSets, TLC

VARIABLES
    call,       \* unit specification: the function applied and its arguments
    ret,        \* unit specification: <<>> before the call, <<result>> after
    root,       \* the model graph handed to generate (columns are mutated)
    options,    \* the options object handed to generate
    pc,         \* position of the generate run
    pos,        \* indices of the data model / owned element / entity at hand
    schemaCW,   \* generateSchema: codeWriter, dropWriter and schemas
    tablesCW,   \* generateTables: tableCodeWriter, tableDropWriter, refs, tableRefs
    diagramCW,  \* generateTables, one diagram: codeWriter and dropWriter
    files,      \* the calls of fs.writeFileSync, in order
    toasts,     \* the calls of app.toast.*, in order
    dialogs,    \* the calls of app.dialogs.*, in order
    runs        \* number of generate runs started

vars == <<call, ret, root, options, pc, pos, schemaCW, tablesCW, diagramCW,
          files, toasts, dialogs, runs>>

---------------------------------------------------------------------------
(* Strings *)

UpperCase == <<"A","B","C","D","E","F","G","H","I","J","K","L","M",
               "N","O","P","Q","R","S","T","U","V","W","X","Y","Z">>
LowerCase == <<"a","b","c","d","e","f","g","h","i","j","k","l","m",
               "n","o","p","q","r","s","t","u","v","w","x","y","z">>
Digits == <<"0","1","2","3","4","5","6","7","8","9">>

Range(s) == {s[i] : i \in 1..Len(s)}

\* String.prototype.toLowerCase
toLowerCase(s) ==
    [i \in 1..Len(s) |->
        IF \E k \in 1..Len(UpperCase) : UpperCase[k] = s[i]
        THEN LowerCase[CHOOSE k \in 1..Len(UpperCase) : UpperCase[k] = s[i]]
        ELSE s[i]]

\* String.prototype.indexOf: 0-based place of the first occurrence, or -1
indexOf(s, needle) ==
    LET hits == {i \in 0..(Len(s) - Len(needle)) :
                    SubSeq(s, i + 1, i + Len(needle)) = needle}
    IN IF hits = {} THEN -1 ELSE CHOOSE i \in hits : \A j \in hits : i <= j

\* String.prototype.trim: whitespace removed at both ends
IsWhite(c) == c \in {" ", "\n", "\t"}
RECURSIVE trimStart(_)
trimStart(s) == IF s # <<>> /\ IsWhite(Head(s)) THEN trimStart(Tail(s)) ELSE s
RECURSIVE trimEnd(_)
trimEnd(s) ==
    IF s # <<>> /\ IsWhite(s[Len(s)]) THEN trimEnd(SubSeq(s, 1, Len(s) - 1)) ELSE s
trim(s) == trimEnd(trimStart(s))

\* String.prototype.split on a one-character separator: always at least one piece
RECURSIVE split(_, _)
split(s, sep) ==
    LET hits == {i \in 1..Len(s) : s[i] = sep}
    IN IF hits = {} THEN <<s>>
       ELSE LET i == CHOOSE k \in hits : \A j \in hits : k <= j
            IN <<SubSeq(s, 1, i - 1)>> \o split(SubSeq(s, i + 1, Len(s)), sep)

\* Array.prototype.join
RECURSIVE join(_, _)
join(parts, sep) ==
    IF parts = <<>> THEN <<>>
    ELSE IF Len(parts) = 1 THEN parts[1]
    ELSE parts[1] \o sep \o join(Tail(parts), sep)

\* number to string
RECURSIVE NatText(_)
NatText(n) == IF n < 10 THEN <<Digits[n + 1]>> ELSE NatText(n \div 10) \o <<Digits[(n % 10) + 1]>>
IntText(n) == IF n < 0 THEN <<"-">> \o NatText(0 - n) ELSE NatText(n)

---------------------------------------------------------------------------
(* codegen-utils: the helpers generator.js requires *)

\* codegen.replaceAll, used with one-character patterns only
replaceAll(s, from, to) == [i \in 1..Len(s) |-> IF s[i] = from THEN to ELSE s[i]]

\* codegen.isValidIdentifier: non-empty, letters, digits and underscore only
IdentChars == Range(UpperCase) \cup Range(LowerCase) \cup Range(Digits) \cup {"_"}
isValidIdentifier(name) == name # <<>> /\ \A i \in 1..Len(name) : name[i] \in IdentChars

\* codegen.tag: the first tag of the element with that name, as a sequence of 0 or 1
SelectFirst(tags, Test(_)) ==
    LET hits == {i \in 1..Len(tags) : Test(tags[i])}
    IN IF hits = {} THEN <<>> ELSE <<tags[CHOOSE i \in hits : \A j \in hits : i <= j]>>
tag(name, elem) == LET T(t) == t.name = name IN SelectFirst(elem.tags, T)
\* codegen.stringTag: that tag's value, or the empty string
stringTag(name, elem) == IF tag(name, elem) = <<>> THEN <<>> ELSE tag(name, elem)[1].value
\* codegen.tagsByValue / codegen.tagByValue: the tags whose value is the given one
tagsByValue(value, elem) == LET T(t) == t.value = value IN SelectSeq(elem.tags, T)
tagByValue(value, elem) == LET T(t) == t.value = value IN SelectFirst(elem.tags, T)
\* codegen.asComment: the documentation as a quoted SQL literal
asComment(doc) == <<"'">> \o doc \o <<"'">>
\* codegen.enumAsList: the enum tag's value as a list of quoted literals
enumAsList(enums) == <<"'">> \o enums \o <<"'">>

\* codegen.CodeWriter: lines with the indentation level each was written at
NewCodeWriter == [lines |-> <<>>, indentation |-> 0]
writeLine(w, text) ==
    [w EXCEPT !.lines = Append(@, [indent |-> w.indentation, text |-> text])]
indent(w) == [w EXCEPT !.indentation = @ + 1]
outdent(w) == [w EXCEPT !.indentation = IF @ > 0 THEN @ - 1 ELSE 0]
hasContent(w) == w.lines # <<>>
getData(w) == w.lines

---------------------------------------------------------------------------
(* DDLGenerator.dataType *)

T_enum == <<"e", "n", "u", "m">>
T_serial == <<"s", "e", "r", "i", "a", "l">>
T_table == <<"t", "a", "b", "l", "e">>
T_column == <<"c", "o", "l", "u", "m", "n">>
T_default == <<"d", "e", "f", "a", "u", "l", "t">>
T_index == <<"i", "n", "d", "e", "x">>
T_prefix == <<"p", "r", "e", "f", "i", "x">>
T_schema == <<"s", "c", "h", "e", "m", "a">>
T_database == <<"d", "a", "t", "a", "b", "a", "s", "e">>
T_public == <<"p", "u", "b", "l", "i", "c">>

\* a column length: unset, or a number
NoLength == [has |-> FALSE, n |-> 0]
Length(n) == [has |-> TRUE, n |-> n]
LengthText(len) == IF len.has THEN IntText(len.n) ELSE <<"undefined">>

varLenFunc(elem, opts) == <<"(">> \o LengthText(elem.length) \o <<")">>
noLenFunc(elem, opts) == <<>>
LenFunc(name, elem, opts) ==
    IF name = "varLenFunc" THEN varLenFunc(elem, opts) ELSE noLenFunc(elem, opts)

typeOf(type, lenFunc, elem, opts) == type \o LenFunc(lenFunc, elem, opts)

\* the override taken for every negative length
typeOfWithOverrideNegative(type, override, lenFunc, elem, opts) ==
    IF elem.length.has /\ elem.length.n < 0
    THEN override \o LenFunc(lenFunc, elem, opts)
    ELSE type \o LenFunc(lenFunc, elem, opts)

typeOfWithOverride(type, override, lenFunc, elem, opts) ==
    IF elem.length.has /\ elem.length.n = -1
    THEN override \o LenFunc(lenFunc, elem, opts)
    ELSE type \o LenFunc(lenFunc, elem, opts)

map == {
    [key |-> <<"V", "A", "R", "C", "H", "A", "R">>, fn |-> "typeOf",
     type |-> <<"v", "a", "r", "c", "h", "a", "r">>,
     override |-> <<>>, lenFunc |-> "varLenFunc"],
    [key |-> <<"B", "O", "O", "L", "E", "A", "N">>, fn |-> "typeOf",
     type |-> <<"b", "o", "o", "l", "e", "a", "n">>,
     override |-> <<>>, lenFunc |-> "noLenFunc"],
    [key |-> <<"I", "N", "T", "E", "G", "E", "R">>, fn |-> "typeOfWithOverride",
     type |-> <<"i", "n", "t", "e", "g", "e", "r">>,
     override |-> <<"s", "e", "r", "i", "a", "l">>, lenFunc |-> "noLenFunc"],
    [key |-> <<"C", "H", "A", "R">>, fn |-> "typeOf",
     type |-> <<"c", "h", "a", "r">>,
     override |-> <<>>, lenFunc |-> "varLenFunc"],
    [key |-> <<"B", "I", "N", "A", "R", "Y">>, fn |-> "typeOf",
     type |-> <<"b", "y", "t", "e", "a">>,
     override |-> <<>>, lenFunc |-> "noLenFunc"],
    [key |-> <<"V", "A", "R", "B", "I", "N", "A", "R", "Y">>, fn |-> "typeOf",
     type |-> <<"b", "y", "t", "e", "a">>,
     override |-> <<>>, lenFunc |-> "noLenFunc"],
    [key |-> <<"B", "L", "O", "B">>, fn |-> "typeOf",
     type |-> <<"b", "y", "t", "e", "a">>,
     override |-> <<>>, lenFunc |-> "noLenFunc"],
    [key |-> <<"T", "E", "X", "T">>, fn |-> "typeOf",
     type |-> <<"t", "e", "x", "t">>,
     override |-> <<>>, lenFunc |-> "noLenFunc"],
    [key |-> <<"S", "M", "A", "L", "L", "I", "N", "T">>, fn |-> "typeOfWithOverride",
     type |-> <<"s", "m", "a", "l", "l", "i", "n", "t">>,
     override |-> <<"s", "m", "a", "l", "l", "s", "e", "r", "i", "a", "l">>, lenFunc |-> "noLenFunc"],
    [key |-> <<"B", "I", "G", "I", "N", "T">>, fn |-> "typeOfWithOverride",
     type |-> <<"b", "i", "g", "i", "n", "t">>,
     override |-> <<"b", "i", "g", "s", "e", "r", "i", "a", "l">>, lenFunc |-> "noLenFunc"],
    [key |-> <<"D", "E", "C", "I", "M", "A", "L">>, fn |-> "typeOf",
     type |-> <<"n", "u", "m", "e", "r", "i", "c">>,
     override |-> <<>>, lenFunc |-> "varLenFunc"],
    [key |-> <<"N", "U", "M", "E", "R", "I", "C">>, fn |-> "typeOf",
     type |-> <<"n", "u", "m", "e", "r", "i", "c">>,
     override |-> <<>>, lenFunc |-> "varLenFunc"],
    [key |-> <<"F", "L", "O", "A", "T">>, fn |-> "typeOf",
     type |-> <<"r", "e", "a", "l">>,
     override |-> <<>>, lenFunc |-> "noLenFunc"],
    [key |-> <<"D", "O", "U", "B", "L", "E">>, fn |-> "typeOf",
     type |-> <<"d", "o", "u", "b", "l", "e", " ", "p", "r", "e", "c", "i", "s", "i", "o", "n">>,
     override |-> <<>>, lenFunc |-> "noLenFunc"],
    [key |-> <<"B", "I", "T">>, fn |-> "typeOf",
     type |-> <<"b", "i", "t">>,
     override |-> <<>>, lenFunc |-> "varLenFunc"],
    [key |-> <<"D", "A", "T", "E">>, fn |-> "typeOf",
     type |-> <<"d", "a", "t", "e">>,
     override |-> <<>>, lenFunc |-> "noLenFunc"],
    [key |-> <<"T", "I", "M", "E">>, fn |-> "typeOf",
     type |-> <<"t", "i", "m", "e", " ", "w", "i", "t", "h", "o", "u", "t", " ", "t", "i", "m", "e", " ", "z", "o", "n", "e">>,
     override |-> <<>>, lenFunc |-> "noLenFunc"],
    [key |-> <<"D", "A", "T", "E", "T", "I", "M", "E">>, fn |-> "typeOf",
     type |-> <<"t", "i", "m", "e", "s", "t", "a", "m", "p", " ", "w", "i", "t", "h", " ", "t", "i", "m", "e", " ", "z", "o", "n", "e">>,
     override |-> <<>>, lenFunc |-> "noLenFunc"],
    [key |-> <<"T", "I", "M", "E", "S", "T", "A", "M", "P", "T", "Z">>, fn |-> "typeOf",
     type |-> <<"t", "i", "m", "e", "s", "t", "a", "m", "p", " ", "w", "i", "t", "h", " ", "t", "i", "m", "e", " ", "z", "o", "n", "e">>,
     override |-> <<>>, lenFunc |-> "noLenFunc"],
    [key |-> <<"T", "I", "M", "E", "S", "T", "A", "M", "P">>, fn |-> "typeOf",
     type |-> <<"t", "i", "m", "e", "s", "t", "a", "m", "p", " ", "w", "i", "t", "h", "o", "u", "t", " ", "t", "i", "m", "e", " ", "z", "o", "n", "e">>,
     override |-> <<>>, lenFunc |-> "noLenFunc"],
    [key |-> <<"P", "O", "I", "N", "T">>, fn |-> "typeOf",
     type |-> <<"p", "o", "i", "n", "t">>,
     override |-> <<>>, lenFunc |-> "noLenFunc"],
    [key |-> <<"P", "O", "L", "Y", "G", "O", "N">>, fn |-> "typeOf",
     type |-> <<"p", "o", "l", "y", "g", "o", "n">>,
     override |-> <<>>, lenFunc |-> "noLenFunc"],
    [key |-> <<"C", "I", "D", "R">>, fn |-> "typeOf",
     type |-> <<"c", "i", "d", "r">>,
     override |-> <<>>, lenFunc |-> "noLenFunc"],
    [key |-> <<"I", "N", "E", "T">>, fn |-> "typeOf",
     type |-> <<"i", "n", "e", "t">>,
     override |-> <<>>, lenFunc |-> "noLenFunc"]
}

dataType(elem, opts) ==
    IF \E e \in map : e.key = elem.type
    THEN LET e == CHOOSE x \in map : x.key = elem.type
         IN IF e.fn = "typeOfWithOverride"
            THEN typeOfWithOverride(e.type, e.override, e.lenFunc, elem, opts)
            ELSE typeOf(e.type, e.lenFunc, elem, opts)
    ELSE elem.type

\* tags, as the model graph provider attaches them
StringTag(name, value) ==
    [name |-> name, value |-> value, kind |-> "string", number |-> 0, checked |-> FALSE,
     reference |-> <<>>]
\* a reference tag whose target tag is named marker (a function or procedure body)
RoutineTag(name, value, marker) ==
    [name |-> name, value |-> value, kind |-> "reference", number |-> 0, checked |-> FALSE,
     reference |-> <<[name |-> marker, value |-> <<>>, reference |-> <<>>]>>]
\* a reference tag whose target refers to the tag named marker (a trigger body)
TriggerTag(name, value, event, marker) ==
    [name |-> name, value |-> value, kind |-> "reference", number |-> 0, checked |-> FALSE,
     reference |-> <<[name |-> <<"t">>, value |-> event,
                      reference |-> <<[name |-> marker]>>]>>]
IndexTag(name, number, checked) ==
    [name |-> name, value |-> T_index, kind |-> "number", number |-> number,
     checked |-> checked, reference |-> <<>>]

---------------------------------------------------------------------------
(* DDLGenerator: names *)

Toast(severity, text) == [severity |-> severity, text |-> text]

\* the name a tag overrides, else the display name with spaces replaced
dbNameOf(tagName, elem) ==
    LET fromTag == IF tag(tagName, elem) # <<>> THEN tag(tagName, elem)[1].value ELSE <<>>
    IN IF fromTag = <<>> THEN replaceAll(elem.name, " ", "_") ELSE fromTag

tableName(elem, opts) ==
    LET dbName == dbNameOf(T_table, elem)
    IN IF ~isValidIdentifier(dbName) THEN <<>> ELSE toLowerCase(dbName)

tableNameToasts(elem, opts) ==
    LET dbName == dbNameOf(T_table, elem)
    IN IF ~isValidIdentifier(dbName)
       THEN <<Toast("error", <<"Table name is not valid: ">> \o dbName
                              \o <<", please edit the table tag for ">> \o elem.name)>>
       ELSE <<>>

routineName(elem, opts) ==
    LET name == IF elem.name = <<>>
                THEN replaceAll(replaceAll(elem.name, " ", "_"), "-", "_")
                ELSE elem.name
    IN IF ~isValidIdentifier(name) THEN <<>> ELSE toLowerCase(name)

routineNameToasts(elem, opts) ==
    IF ~isValidIdentifier(elem.name)
    THEN <<Toast("error", <<"Routine name is not valid: ">> \o elem.name
                           \o <<", please edit the name for ">> \o elem.name)>>
    ELSE <<>>

columnName(elem, opts) ==
    LET dbName == dbNameOf(T_column, elem)
    IN IF ~isValidIdentifier(dbName) THEN <<>> ELSE toLowerCase(dbName)

columnNameToasts(elem, opts) ==
    LET dbName == dbNameOf(T_column, elem)
    IN IF ~isValidIdentifier(dbName)
       THEN <<Toast("error", <<"Column name is not valid: ">> \o dbName
                              \o <<", please edit the column tag for ">> \o elem.name)>>
       ELSE <<>>

columnDefault(elem, opts) ==
    IF tag(T_default, elem) = <<>> THEN <<>>
    ELSE <<" DEFAULT ">> \o tag(T_default, elem)[1].value

---------------------------------------------------------------------------
(* DDLGenerator.getIndexColumns, columnDeclaration, writeUserIndexes *)

getIndexColumns(elem) ==
    LET HasIdx(col) == tagByValue(T_index, col) # <<>> IN SelectSeq(elem.columns, HasIdx)

\* the line, the comments with this column's pushed, and the column as it is left
\* the default appended whatever the type
columnDeclarationDefaulted(columnName_, elem, comments, defaultValue, opts) ==
    [line |-> columnName_ \o <<" ">> \o dataType(elem, opts)
              \o (IF elem.primaryKey \/ ~elem.nullable THEN <<" NOT NULL">> ELSE <<>>)
              \o defaultValue,
     comments |-> IF elem.documentation # <<>>
                  THEN Append(comments, [col |-> columnName_,
                                         doc |-> asComment(elem.documentation)])
                  ELSE comments,
     elem |-> IF elem.is_enum THEN [elem EXCEPT !.type = T_enum] ELSE elem]

columnDeclaration(columnName_, elem, comments, defaultValue, opts) ==
    LET _type == dataType(elem, opts)
        line1 == columnName_ \o <<" ">> \o _type
        line2 == IF elem.primaryKey \/ ~elem.nullable THEN line1 \o <<" NOT NULL">> ELSE line1
        line3 == IF indexOf(_type, T_serial) = -1 THEN line2 \o defaultValue ELSE line2
    IN [line |-> line3,
        comments |-> IF elem.documentation # <<>>
                     THEN Append(comments, [col |-> columnName_,
                                            doc |-> asComment(elem.documentation)])
                     ELSE comments,
        elem |-> IF elem.is_enum THEN [elem EXCEPT !.type = T_enum] ELSE elem]

\* the idxDef entries of lines 174-185, in push order
RECURSIVE idxDefOfTags(_, _)
idxDefOfTags(colName, idxTags) ==
    IF idxTags = <<>> THEN <<>>
    ELSE <<[column |-> colName, idxName |-> Head(idxTags).name,
            seq |-> Head(idxTags).number, desc |-> Head(idxTags).checked]>>
         \o idxDefOfTags(colName, Tail(idxTags))

RECURSIVE idxDefOf(_, _)
idxDefOf(idxCols, opts) ==
    IF idxCols = <<>> THEN <<>>
    ELSE idxDefOfTags(columnName(Head(idxCols), opts), tagsByValue(T_index, Head(idxCols)))
         \o idxDefOf(Tail(idxCols), opts)

\* a property name that is an array index: canonical decimal digits
IsArrayIndex(name) ==
    /\ name # <<>>
    /\ \A i \in 1..Len(name) : name[i] \in Range(Digits)
    /\ (Len(name) > 1 => name[1] # "0")

RECURSIVE ArrayIndexValue(_)
ArrayIndexValue(name) ==
    IF name = <<>> THEN 0
    ELSE 10 * ArrayIndexValue(SubSeq(name, 1, Len(name) - 1))
         + ((CHOOSE d \in 1..10 : Digits[d] = name[Len(name)]) - 1)

\* lines 187-190: reduce into an Array; a group lands in the property idxName
idxGroup(idxDef, name) == LET T(idx) == idx.idxName = name IN SelectSeq(idxDef, T)

\* Array.prototype.forEach visits the array-index properties only, ascending
RECURSIVE SortedIndexNames(_)
SortedIndexNames(names) ==
    IF names = {} THEN <<>>
    ELSE LET n == CHOOSE x \in names :
                    \A y \in names : ArrayIndexValue(x) <= ArrayIndexValue(y)
         IN <<n>> \o SortedIndexNames(names \ {n})

forEachVisited(idxDef) ==
    SortedIndexNames({idxDef[i].idxName : i \in 1..Len(idxDef)} \cap
                     {n \in {idxDef[i].idxName : i \in 1..Len(idxDef)} : IsArrayIndex(n)})

\* Array.prototype.sort with the comparator of line 194: stable, ascending seq
RECURSIVE sortBySeq(_)
sortBySeq(o) ==
    IF o = <<>> THEN <<>>
    ELSE LET least == CHOOSE i \in 1..Len(o) :
                        /\ \A j \in 1..Len(o) : o[i].seq <= o[j].seq
                        /\ \A j \in 1..(i - 1) : o[j].seq # o[i].seq
         IN <<o[least]>> \o sortBySeq(SubSeq(o, 1, least - 1) \o SubSeq(o, least + 1, Len(o)))

idxCols(o) == [i \in 1..Len(o) |-> IF o[i].desc THEN o[i].column \o <<" DESC">> ELSE o[i].column]

RECURSIVE writeIndexGroups(_, _, _, _)
writeIndexGroups(codeWriter, tableName_, idxDef, names) ==
    IF names = <<>> THEN codeWriter
    ELSE LET o == sortBySeq(idxGroup(idxDef, Head(names)))
             w1 == writeLine(codeWriter, <<" -- Index: ">> \o o[1].idxName)
             w2 == indent(writeLine(w1, <<"CREATE INDEX ON ">> \o tableName_))
             w3 == outdent(writeLine(w2, <<"(">> \o join(idxCols(o), <<", ">>) \o <<");">>))
         IN writeIndexGroups(w3, tableName_, idxDef, Tail(names))

writeUserIndexes(codeWriter, tableName_, elem, opts) ==
    LET idxDef == idxDefOf(getIndexColumns(elem), opts)
    IN writeLine(writeIndexGroups(codeWriter, tableName_, idxDef, forEachVisited(idxDef)), <<>>)

RECURSIVE writeUserIndexesToasts(_, _)
writeUserIndexesToasts(idxCols_, opts) ==
    IF idxCols_ = <<>> THEN <<>>
    ELSE columnNameToasts(Head(idxCols_), opts) \o writeUserIndexesToasts(Tail(idxCols_), opts)

---------------------------------------------------------------------------
(* The model graph.  root.ownedElements are data models; a data model owns *)
(* diagrams and entities; a diagram owns entities.  An entity is named by  *)
(* <<d, e, k>>: owned element e of data model d, and entity k of that      *)
(* diagram, or k = 0 when owned element e is itself the entity.  A column's *)
(* referenceTo is <<>> or <<d, e, k, c>>, column c of that entity.         *)

DataModelAt(g, d) == g.ownedElements[d]
OwnedAt(g, d, e) == g.ownedElements[d].ownedElements[e]
EntityAt(g, p) ==
    IF p[3] = 0 THEN OwnedAt(g, p[1], p[2]) ELSE OwnedAt(g, p[1], p[2]).ownedElements[p[3]]
\* entity._parent: the diagram, or the data model
EntityParent(g, p) == IF p[3] = 0 THEN DataModelAt(g, p[1]) ELSE OwnedAt(g, p[1], p[2])

SetEntity(g, p, ent) ==
    IF p[3] = 0
    THEN [g EXCEPT !.ownedElements[p[1]].ownedElements[p[2]] = ent]
    ELSE [g EXCEPT !.ownedElements[p[1]].ownedElements[p[2]].ownedElements[p[3]] = ent]

\* DDLGenerator.schemaName of an entity's parent: a diagram stands for its data model
schemaName(g, p, opts) ==
    LET elem == DataModelAt(g, p[1])
        dbName == stringTag(T_schema, elem)
    IN IF elem.kind # "ERDDataModel" THEN T_public
       ELSE IF dbName = <<>> THEN T_public ELSE dbName

schemaNameToasts(g, p, opts) ==
    LET elem == DataModelAt(g, p[1])
        dbName == stringTag(T_schema, elem)
    IN IF elem.kind = "ERDDataModel" /\ dbName # <<>> /\ ~isValidIdentifier(dbName)
       THEN <<Toast("warning", <<"Schema name not valid: ">> \o dbName)>>
       ELSE <<>>

---------------------------------------------------------------------------
(* DDLGenerator.generateTable *)

\* lines 284-303: create enums
RECURSIVE createEnums(_, _, _, _)
createEnums(st, i, table, opts) ==
    IF i > Len(st.columns) THEN st
    ELSE LET col == st.columns[i]
             _type == dataType(col, opts)
             enums == stringTag(_type, col)
         IN IF toLowerCase(_type) = T_enum /\ enums # <<>>
            THEN LET column == columnName(col, opts)
                     typeName == table \o <<"_">> \o column
                     w1 == writeLine(st.codeWriter,
                              <<"CREATE TYPE ">> \o typeName \o <<" AS ENUM(">>
                              \o enumAsList(enums) \o <<");\n">>)
                     w2 == writeLine(w1,
                              <<"CREATE CAST (CHARACTER VARYING AS ">> \o typeName
                              \o <<") WITH INOUT AS IMPLICIT;\n">>)
                 IN createEnums(
                        [codeWriter |-> w2,
                         columns |-> [st.columns EXCEPT ![i].type = typeName,
                                                        ![i].is_enum = TRUE],
                         drop_enums |-> Append(st.drop_enums,
                                          <<"DROP TYPE ">> \o typeName \o <<" CASCADE;">>),
                         toasts |-> st.toasts \o columnNameToasts(col, opts)],
                        i + 1, table, opts)
            ELSE createEnums(st, i + 1, table, opts)

RECURSIVE writeLines(_, _)
writeLines(w, lines) ==
    IF lines = <<>> THEN w ELSE writeLines(writeLine(w, Head(lines)), Tail(lines))

\* lines 314-332: columns
RECURSIVE columnsLoop(_, _, _)
columnsLoop(st, i, opts) ==
    IF i > Len(st.columns) THEN st
    ELSE LET col == st.columns[i]
             column == columnName(col, opts)
             defaultValue == columnDefault(col, opts)
             decl == columnDeclaration(column, col, st.comments, defaultValue, opts)
         IN IF column = <<>>
            THEN columnsLoop([st EXCEPT !.toasts = @ \o columnNameToasts(col, opts)],
                             i + 1, opts)
            ELSE columnsLoop(
                   [st EXCEPT
                      !.primaryKeys = IF col.primaryKey THEN Append(@, column) ELSE @,
                      !.uniques = IF ~col.primaryKey /\ col.unique THEN Append(@, column) ELSE @,
                      !.foreignKeys = IF ~col.primaryKey /\ ~col.unique /\ col.foreignKey
                                      THEN Append(@, column) ELSE @,
                      !.foreignKeyCtr = IF opts.foreignKeyConstraint /\ col.referenceTo # <<>>
                                        THEN Append(@, i) ELSE @,
                      !.lines = Append(@, decl.line),
                      !.comments = decl.comments,
                      !.columns[i] = decl.elem],
                   i + 1, opts)

\* lines 339-342: the lines, each but the last followed by a comma
withCommas(lines) ==
    [i \in 1..Len(lines) |-> IF i < Len(lines) THEN lines[i] \o <<",">> ELSE lines[i]]

\* lines 357-389: one ALTER TABLE ... ADD CONSTRAINT per referencing column
RECURSIVE foreignKeyRefs(_, _, _, _, _, _)
foreignKeyRefs(g, columns, foreignKeyCtr, table, tableName_, opts) ==
    IF foreignKeyCtr = <<>> THEN [refs |-> <<>>, toasts |-> <<>>]
    ELSE LET col == columns[Head(foreignKeyCtr)]
             colName == columnName(col, opts)
             refPath == col.referenceTo
             refTableObj == EntityAt(g, refPath)
             refCol == refTableObj.columns[refPath[4]]
             refColName == columnName(refCol, opts)
             refTableName0 == tableName(refTableObj, opts)
             refTableName == IF EntityParent(g, refPath).kind = "ERDDiagram"
                             THEN stringTag(T_prefix, EntityParent(g, refPath)) \o refTableName0
                             ELSE refTableName0
             refSchemaName == schemaName(g, refPath, opts)
             rest == foreignKeyRefs(g, columns, Tail(foreignKeyCtr), table, tableName_, opts)
         IN [refs |-> <<<<"ALTER TABLE ">> \o table \o <<" ADD CONSTRAINT FK_">> \o tableName_
                        \o <<"__">> \o colName \o <<" FOREIGN KEY (">> \o colName
                        \o <<") REFERENCES ">> \o refSchemaName \o <<".">> \o refTableName
                        \o <<"(">> \o refColName \o <<");">>>> \o rest.refs,
             toasts |-> columnNameToasts(col, opts) \o columnNameToasts(refCol, opts)
                        \o tableNameToasts(refTableObj, opts)
                        \o schemaNameToasts(g, refPath, opts) \o rest.toasts]

\* lines 391-400: simple FK indexes
RECURSIVE writeForeignKeyIndexes(_, _, _)
writeForeignKeyIndexes(w, table, foreignKeys) ==
    IF foreignKeys = <<>> THEN w
    ELSE writeForeignKeyIndexes(
            outdent(writeLine(indent(writeLine(w, <<"CREATE INDEX ON ">> \o table)),
                              <<"(">> \o Head(foreignKeys) \o <<");">>)),
            table, Tail(foreignKeys))

\* lines 411-416: column comments
RECURSIVE writeComments(_, _, _)
writeComments(w, table, comments) ==
    IF comments = <<>> THEN w
    ELSE writeComments(
            outdent(writeLine(indent(writeLine(w, <<"COMMENT ON COLUMN ">> \o table \o <<".">>
                                                  \o Head(comments).col)),
                              <<"IS ">> \o Head(comments).doc \o <<";">>)),
            table, Tail(comments))

\* lines 418-438: triggers
IsTrigger(t, opts) ==
    /\ t.kind = "reference"
    /\ t.reference # <<>>
    /\ t.reference[1].reference # <<>>
    /\ t.reference[1].reference[1].name = opts.trigger

RECURSIVE writeTriggers(_, _, _, _, _)
writeTriggers(st, tags, table, tableName_, opts) ==
    IF tags = <<>> THEN st
    ELSE LET t == Head(tags)
             w1 == indent(writeLine(st.codeWriter,
                      <<"CREATE TRIGGER ">> \o tableName_ \o <<"_">> \o routineName(t, opts)
                      \o <<"  ">> \o t.reference[1].value \o <<" ON ">> \o table))
             w2 == outdent(writeLine(writeLine(writeLine(w1, t.value), <<>>), <<>>))
         IN IF IsTrigger(t, opts)
            THEN writeTriggers([codeWriter |-> w2,
                                toasts |-> st.toasts \o routineNameToasts(t, opts)],
                               Tail(tags), table, tableName_, opts)
            ELSE writeTriggers(st, Tail(tags), table, tableName_, opts)

\* lines 447-451: the column list of the INSERT
RECURSIVE insertColumns(_, _)
insertColumns(columns, opts) ==
    IF columns = <<>> THEN <<>>
    ELSE columnName(Head(columns), opts) \o (IF Len(columns) > 1 THEN <<",">> ELSE <<>>)
         \o insertColumns(Tail(columns), opts)

RECURSIVE insertColumnsToasts(_, _)
insertColumnsToasts(columns, opts) ==
    IF columns = <<>> THEN <<>>
    ELSE columnNameToasts(Head(columns), opts) \o insertColumnsToasts(Tail(columns), opts)

\* lines 457-466: the values of one line of data
\* an empty field quoted like any other
RECURSIVE insertValuesQuoted(_, _, _)
insertValuesQuoted(insertData, i, colLength) ==
    IF i >= colLength THEN <<>>
    ELSE (IF i + 1 <= Len(insertData)
          THEN <<" '">> \o insertData[i + 1] \o <<"' ">>
          ELSE <<" null ">>)
         \o (IF i < colLength - 1 THEN <<",">> ELSE <<>>)
         \o insertValuesQuoted(insertData, i + 1, colLength)

RECURSIVE insertValues(_, _, _)
insertValues(insertData, i, colLength) ==
    IF i >= colLength THEN <<>>
    ELSE (IF i + 1 <= Len(insertData) /\ insertData[i + 1] # <<>>
          THEN <<" '">> \o insertData[i + 1] \o <<"' ">>
          ELSE <<" null ">>)
         \o (IF i < colLength - 1 THEN <<",">> ELSE <<>>)
         \o insertValues(insertData, i + 1, colLength)

RECURSIVE writeInserts(_, _, _, _)
writeInserts(w, insertInto, insertLines, colLength) ==
    IF insertLines = <<>> THEN w
    ELSE writeInserts(
            writeLine(writeLine(w, insertInto
                                   \o insertValues(split(Head(insertLines), "|"), 0, colLength)
                                   \o <<" ); ">>),
                      <<>>),
            insertInto, Tail(insertLines), colLength)

\* lines 440-473: generate inserts
generateInserts(w, table, elem, opts) ==
    LET text == trim(elem.documentation)
        insertInto == <<"INSERT INTO ">> \o table \o <<" (">>
                      \o insertColumns(elem.columns, opts) \o <<" ) VALUES ( ">>
    IN IF opts.tableInserts /\ Len(text) > 0
       THEN writeLine(writeInserts(writeLine(w, <<>>), insertInto, split(text, "\n"),
                                   Len(elem.columns)),
                      <<>>)
       ELSE w

\* lines 305-312 and 334-346: the table's body, between its CREATE TABLE and its ");"
\* the clause written for a key of several columns only
tableLinesSeveral(cols) ==
    IF Len(cols.primaryKeys) > 1
    THEN Append(cols.lines,
                <<"PRIMARY KEY (">> \o join(cols.primaryKeys, <<", ">>) \o <<")">>)
    ELSE cols.lines

tableLines(cols) ==
    IF Len(cols.primaryKeys) > 0
    THEN Append(cols.lines,
                <<"PRIMARY KEY (">> \o join(cols.primaryKeys, <<", ">>) \o <<")">>)
    ELSE cols.lines

writeTable(w, table, cols) ==
    writeLine(writeLine(outdent(writeLines(
        indent(writeLine(w, <<"CREATE TABLE ">> \o table \o <<" (">>)),
        withCommas(tableLines(cols)))), <<");">>), <<>>)

\* lines 348-355: uniques
writeUniques(w, table, uniques) ==
    IF Len(uniques) > 0
    THEN writeLine(outdent(writeLine(indent(writeLine(w, <<"ALTER TABLE ">> \o table)),
                       <<"ADD UNIQUE (">> \o join(uniques, <<", ">>) \o <<");">>)), <<>>)
    ELSE w

\* lines 391-400
writeSimpleIndexes(w, table, foreignKeys) ==
    IF Len(foreignKeys) > 0
    THEN writeLine(writeForeignKeyIndexes(w, table, foreignKeys), <<>>)
    ELSE w

\* lines 404-410: the table comment
writeTableComment(w, table, documentation, opts) ==
    IF documentation # <<>> /\ ~opts.tableInserts
    THEN outdent(writeLine(indent(writeLine(w, <<"COMMENT ON TABLE ">> \o table)),
                           <<"IS ">> \o asComment(documentation) \o <<";">>))
    ELSE w

\* line 475
writeLastLine(w, documentation, comments) ==
    IF documentation = <<>> /\ Len(comments) = 0 THEN w ELSE writeLine(w, <<>>)

\* the enums dropped ahead of the table that uses them
writeDropsEnumsFirst(dropWriter, table, drop_enums) ==
    writeLine(writeLines(dropWriter, drop_enums),
              <<"DROP TABLE IF EXISTS ">> \o table \o <<" CASCADE;">>)

\* lines 308-312: the table is dropped, then its enums
writeDrops(dropWriter, table, drop_enums) ==
    writeLines(writeLine(dropWriter, <<"DROP TABLE IF EXISTS ">> \o table \o <<" CASCADE;">>),
               drop_enums)

\* the constraints written where they are found
tableResultInline(codeWriter, dropWriter, elem, refs, fks, toasts_) ==
    [codeWriter |-> writeLines(codeWriter, fks.refs),
     dropWriter |-> dropWriter,
     elem |-> elem,
     refs |-> refs,
     returned |-> FALSE,
     toasts |-> toasts_]

\* lines 371-387: the constraints are pushed onto refs, not written
tableResult(codeWriter, dropWriter, elem, refs, fks, toasts_) ==
    [codeWriter |-> codeWriter,
     dropWriter |-> dropWriter,
     elem |-> elem,
     refs |-> refs \o fks.refs,
     returned |-> FALSE,
     toasts |-> toasts_]

\* the toasts of one call, in the order of the calls that raise them
tableToasts(enums, cols, trg, fks, elem, opts) ==
    tableNameToasts(elem, opts) \o enums.toasts \o cols.toasts \o fks.toasts
    \o writeUserIndexesToasts(getIndexColumns(elem), opts) \o trg.toasts
    \o (IF opts.tableInserts /\ Len(trim(elem.documentation)) > 0
        THEN insertColumnsToasts(elem.columns, opts) ELSE <<>>)

\* lines 305-475, the enums created and the columns scanned
generateTableBody(enums, cols, trg, dropWriter, g, elem, opts, tableName_, table, refs) ==
    tableResult(
        writeLastLine(generateInserts(trg.codeWriter, table, elem, opts),
                      elem.documentation, cols.comments),
        writeDrops(dropWriter, table, enums.drop_enums),
        [elem EXCEPT !.columns = cols.columns],
        refs,
        foreignKeyRefs(g, cols.columns, cols.foreignKeyCtr, table, tableName_, opts),
        tableToasts(enums, cols, trg,
                    foreignKeyRefs(g, cols.columns, cols.foreignKeyCtr, table, tableName_, opts),
                    elem, opts))

\* lines 339-438 on the code writer: body, uniques, indexes, comments, triggers
generateTableColumns(enums, cols, dropWriter, g, elem, opts, tableName_, table, refs) ==
    generateTableBody(enums, cols,
        writeTriggers(
          [codeWriter |->
              writeComments(
                writeTableComment(
                  writeUserIndexes(
                    writeSimpleIndexes(
                      writeUniques(writeTable(enums.codeWriter, table, cols),
                                   table, cols.uniques),
                      table, cols.foreignKeys),
                    table, elem, opts),
                  table, elem.documentation, opts),
                table, cols.comments),
           toasts |-> <<>>],
          elem.tags, table, tableName_, opts),
        dropWriter, g, elem, opts, tableName_, table, refs)

\* lines 284-332: the enums are created, then the columns scanned
generateTableEnums(enums, dropWriter, g, elem, opts, tableName_, table, refs) ==
    generateTableColumns(enums,
        columnsLoop([columns |-> enums.columns, lines |-> <<>>,
                     primaryKeys |-> <<>>, uniques |-> <<>>, foreignKeys |-> <<>>,
                     foreignKeyCtr |-> <<>>, comments |-> <<>>, toasts |-> <<>>],
                    1, opts),
        dropWriter, g, elem, opts, tableName_, table, refs)

generateTableNamed(codeWriter, dropWriter, g, elem, opts, tableName_, table, refs) ==
    generateTableEnums(
        createEnums([codeWriter |-> codeWriter, columns |-> elem.columns,
                     drop_enums |-> <<>>, toasts |-> <<>>], 1, table, opts),
        dropWriter, g, elem, opts, tableName_, table, refs)

\* the whole method; p names the entity in g.  What it leaves behind: the writers,
\* the entity (its columns are rewritten), refs, the toasts, and what it returns
generateTable(codeWriter, dropWriter, g, p, opts, schemaName_, prefix, refs) ==
    generateTableNamed(codeWriter, dropWriter, g, EntityAt(g, p), opts,
                       prefix \o tableName(EntityAt(g, p), opts),
                       schemaName_ \o <<".">> \o prefix \o tableName(EntityAt(g, p), opts),
                       refs)

---------------------------------------------------------------------------
(* The generators of one run.  fs.writeFileSync is modelled by its log.    *)

File(run, file, data) == [run |-> run, file |-> file, data |-> data]
path == <<"PATH">>

\* lines 500-524: the text of db_create.sql
databaseCollation(w, opts) ==
    IF opts.collation # <<"default">>
    THEN writeLine(writeLine(w, <<"LC_COLLATE = '">> \o opts.collation \o <<"'">>),
                   <<"LC_CTYPE = '">> \o opts.collation \o <<"'">>)
    ELSE w

databaseComment(w, elem, dbName) ==
    IF elem.documentation # <<>>
    THEN writeLine(indent(writeLine(writeLine(w, <<>>),
                      <<"COMMENT ON DATABASE ">> \o toLowerCase(dbName))),
                   <<"IS ">> \o asComment(elem.documentation) \o <<";">>)
    ELSE w

databaseCreate(elem, opts, dbName) ==
    databaseComment(
      outdent(outdent(writeLine(
        databaseCollation(
          writeLine(writeLine(indent(writeLine(indent(writeLine(writeLine(writeLine(
            NewCodeWriter,
            <<"-- Database: ">> \o elem.name),
            <<"-- Author: ">> \o elem.author),
            <<"CREATE DATABASE ">> \o toLowerCase(dbName))),
            <<"WITH OWNER = ">> \o opts.owner)),
            <<"ENCODING = '">> \o opts.encoding \o <<"'">>),
            <<"TABLESPACE = ">> \o opts.tablespace),
          opts),
        <<"CONNECTION LIMIT = -1;">>))),
      elem, dbName)

\* lines 488-493: the database tag written back onto the project
databaseTags(elem, tag_, dbName) ==
    IF tag_ = <<>>
    THEN elem.tags
         \o (IF ~isValidIdentifier(elem.name)
             THEN <<StringTag(T_database, toLowerCase(dbName))>> ELSE <<>>)
         \o <<StringTag(T_database, toLowerCase(dbName))>>
    ELSE elem.tags

generateDatabaseNamed(elem, opts, run, tag_, dbName) ==
    IF elem.kind = "Project"
    THEN IF ~isValidIdentifier(dbName)
         THEN [files |-> <<>>, tags |-> databaseTags(elem, tag_, dbName), returned |-> FALSE,
               toasts |-> <<Toast("warning", <<"Database name is not valid: ">> \o dbName
                              \o <<", please edit the database tag for ">> \o elem.name)>>]
         ELSE [files |-> <<File(run, path \o <<"/db", "_create.sql">>,
                                getData(databaseCreate(elem, opts, dbName)))>>
                         \o (IF opts.dropStatements
                             THEN <<File(run, path \o <<"/db", "_drop.sql">>,
                                         getData(writeLine(NewCodeWriter,
                                            <<"DROP DATABASE ">> \o toLowerCase(dbName)
                                            \o <<";">>)))>>
                             ELSE <<>>),
               tags |-> databaseTags(elem, tag_, dbName), returned |-> TRUE,
               toasts |-> <<>>]
    ELSE [files |-> <<>>, tags |-> elem.tags, returned |-> FALSE,
          toasts |-> <<Toast("error",
              <<"No project found, database DDL generator expects a main project">>)>>]

\* lines 478-541 of generateDatabase: what it writes, reports, tags and returns
generateDatabase(elem, opts, run) ==
    generateDatabaseNamed(elem, opts, run, tag(T_database, elem), dbNameOf(T_database, elem))

\* lines 609-621 and 641-653: the routines of a data model whose marker is `marker`
IsRoutine(t, marker) ==
    t.kind = "reference" /\ t.reference # <<>> /\ t.reference[1].name = marker

RECURSIVE routineLoop(_, _, _, _)
routineLoop(st, tags, marker, what) ==
    IF tags = <<>> THEN st
    ELSE LET t == Head(tags)
             w1 == writeLine(writeLine(st.codeWriter, <<>>), <<>>)
             w2 == writeLine(w1, <<"CREATE OR REPLACE ", what, " ">> \o t.name \o <<" ">>)
             w3 == writeLine(w2, t.value)
             d1 == writeLine(st.dropWriter,
                             <<"DROP ", what, " IF EXISTS ">> \o t.name \o <<" () CASCADE;">>)
         IN IF IsRoutine(t, marker)
            THEN routineLoop([codeWriter |-> w3, dropWriter |-> d1,
                              toasts |-> Append(st.toasts,
                                  Toast("info", <<"Generate ", what, " DDL for ">> \o t.name))],
                             Tail(tags), marker, what)
            ELSE routineLoop(st, Tail(tags), marker, what)

\* lines 622-629 and 654-661: the file pair of a buffer pair
\* the drop file written whatever the option says
writeFilePairAlways(codeWriter, dropWriter, opts, run, base) ==
    IF hasContent(codeWriter)
    THEN <<File(run, base \o <<"_create.sql">>, getData(codeWriter)),
           File(run, base \o <<"_drop.sql">>, getData(dropWriter))>>
    ELSE <<>>

writeFilePair(codeWriter, dropWriter, opts, run, base) ==
    IF hasContent(codeWriter)
    THEN <<File(run, base \o <<"_create.sql">>, getData(codeWriter))>>
         \o (IF opts.dropStatements
             THEN <<File(run, base \o <<"_drop.sql">>, getData(dropWriter))>>
             ELSE <<>>)
    ELSE <<>>

generateFunctions(elem, opts, run, dataModelName) ==
    LET st == routineLoop([codeWriter |-> NewCodeWriter, dropWriter |-> NewCodeWriter,
                           toasts |-> <<>>], elem.tags, opts.function, "FUNCTION")
    IN [files |-> writeFilePair(st.codeWriter, st.dropWriter, opts, run,
                                path \o <<"/">> \o dataModelName \o <<"_function">>),
        toasts |-> st.toasts]

generateProcedures(elem, opts, run, dataModelName) ==
    LET st == routineLoop([codeWriter |-> NewCodeWriter, dropWriter |-> NewCodeWriter,
                           toasts |-> <<>>], elem.tags, opts.procedure, "PROCEDURE")
    IN [files |-> writeFilePair(st.codeWriter, st.dropWriter, opts, run,
                                path \o <<"/">> \o dataModelName \o <<"_procedure">>),
        toasts |-> st.toasts]

\* lines 566-567 of generateSchema
schemaNameOf(g, d, opts) == toLowerCase(schemaName(g, <<d>>, opts))
dataModelNameOf(g, d) == toLowerCase(replaceAll(DataModelAt(g, d).name, " ", "_"))

\* lines 571-587 of generateSchema: the schema of data model d
addSchema(st, g, d, opts) ==
    LET e == DataModelAt(g, d)
        schemaName_ == schemaNameOf(g, d, opts)
        w1 == writeLine(st.codeWriter, <<"-- Schema for: ">> \o e.name)
        w2 == indent(writeLine(w1, <<"CREATE SCHEMA ">> \o schemaName_))
        w3 == outdent(writeLine(w2, <<"AUTHORIZATION ">> \o opts.owner \o <<";">>))
        w4 == IF e.documentation # <<>>
              THEN outdent(writeLine(indent(writeLine(writeLine(w3, <<>>),
                              <<"COMMENT ON SCHEMA ">> \o schemaName_)),
                              <<"IS ">> \o asComment(e.documentation) \o <<";">>))
              ELSE w3
    IN IF schemaName_ # T_public /\ \A i \in 1..Len(st.schemas) : st.schemas[i] # schemaName_
       THEN [codeWriter |-> w4,
             dropWriter |-> writeLine(st.dropWriter, <<"DROP SCHEMA ">> \o schemaName_ \o <<";">>),
             schemas |-> Append(st.schemas, schemaName_)]
       ELSE st

---------------------------------------------------------------------------
(* One run of DDLGenerator.generate, step by step *)

NoCall == [fn |-> "none"]
NewSchemaCW == [codeWriter |-> NewCodeWriter, dropWriter |-> NewCodeWriter, schemas |-> <<>>]
NewTablesCW == [tableCodeWriter |-> NewCodeWriter, tableDropWriter |-> NewCodeWriter,
                refs |-> <<>>, tableRefs |-> <<>>]
NewDiagramCW == [codeWriter |-> NewCodeWriter, dropWriter |-> NewCodeWriter]
StartPos == [d |-> 0, e |-> 0, k |-> 0]

\* the state before the first run over graph g with options o
InitRun(g, o) ==
    /\ call = NoCall
    /\ ret = <<>>
    /\ root = g
    /\ options = o
    /\ pc = "idle"
    /\ pos = StartPos
    /\ schemaCW = NewSchemaCW
    /\ tablesCW = NewTablesCW
    /\ diagramCW = NewDiagramCW
    /\ files = <<>>
    /\ toasts = <<>>
    /\ dialogs = <<>>
    /\ runs = 0

MaxRuns == 2

\* generate is called (line 730)
Generate ==
    /\ pc = "idle"
    /\ runs < MaxRuns
    /\ runs' = runs + 1
    /\ pc' = "generateDatabase"
    /\ pos' = StartPos
    /\ UNCHANGED <<call, ret, root, options, schemaCW, tablesCW, diagramCW,
                   files, toasts, dialogs>>

DatabaseGenerated(r) ==
    /\ root' = [root EXCEPT !.tags = r.tags]
    /\ files' = files \o r.files
    /\ toasts' = toasts \o r.toasts
                 \o (IF r.returned
                     THEN <<Toast("info", <<"Database creation files completed.">>)>>
                     ELSE <<>>)

\* lines 734-736: generateDatabase and the toast its result decides
GenerateDatabase ==
    /\ pc = "generateDatabase"
    /\ DatabaseGenerated(generateDatabase(root, options, runs))
    /\ pc' = "generateSchema"
    /\ pos' = [d |-> 1, e |-> 0, k |-> 0]
    /\ schemaCW' = NewSchemaCW
    /\ UNCHANGED <<call, ret, options, tablesCW, diagramCW, dialogs, runs>>

\* line 565: an owned element of the root that is no data model is passed over
SkipOwnedElement ==
    /\ pc = "generateSchema"
    /\ pos.d <= Len(root.ownedElements)
    /\ DataModelAt(root, pos.d).kind # "ERDDataModel"
    /\ pos' = [pos EXCEPT !.d = @ + 1]
    /\ UNCHANGED <<call, ret, root, options, pc, schemaCW, tablesCW, diagramCW,
                   files, toasts, dialogs, runs>>

RoutinesGenerated(r, before) ==
    /\ files' = files \o r.files
    /\ toasts' = toasts \o before \o r.toasts

\* lines 566-568: schemaName, and generateFunctions of the data model
GenerateFunctions ==
    /\ pc = "generateSchema"
    /\ pos.d <= Len(root.ownedElements)
    /\ DataModelAt(root, pos.d).kind = "ERDDataModel"
    /\ RoutinesGenerated(generateFunctions(DataModelAt(root, pos.d), options, runs,
                                           dataModelNameOf(root, pos.d)),
                         schemaNameToasts(root, <<pos.d>>, options))
    /\ pc' = "generateProcedures"
    /\ UNCHANGED <<call, ret, root, options, pos, schemaCW, tablesCW, diagramCW,
                   dialogs, runs>>

\* line 569
GenerateProcedures ==
    /\ pc = "generateProcedures"
    /\ RoutinesGenerated(generateProcedures(DataModelAt(root, pos.d), options, runs,
                                            dataModelNameOf(root, pos.d)),
                         <<>>)
    /\ pc' = "generateTables"
    /\ pos' = [pos EXCEPT !.e = 1, !.k = 0]
    /\ tablesCW' = NewTablesCW
    /\ UNCHANGED <<call, ret, root, options, schemaCW, diagramCW, dialogs, runs>>

\* lines 674-678: a diagram is entered with fresh writers
EnterDiagram ==
    /\ pc = "generateTables"
    /\ pos.e <= Len(DataModelAt(root, pos.d).ownedElements)
    /\ OwnedAt(root, pos.d, pos.e).kind = "ERDDiagram"
    /\ pc' = "diagram"
    /\ pos' = [pos EXCEPT !.k = 1]
    /\ diagramCW' = NewDiagramCW
    /\ UNCHANGED <<call, ret, root, options, schemaCW, tablesCW, files, toasts,
                   dialogs, runs>>

TableToasts(p, r) ==
    Append(toasts, Toast("info", <<"Generate table DDL for ">> \o EntityAt(root, p).name))
    \o r.toasts

DiagramTableGenerated(p, r) ==
    /\ diagramCW' = [codeWriter |-> r.codeWriter, dropWriter |-> r.dropWriter]
    /\ tablesCW' = [tablesCW EXCEPT !.refs = r.refs]
    /\ root' = SetEntity(root, p, r.elem)
    /\ toasts' = TableToasts(p, r)

FlatTableGenerated(p, r) ==
    /\ tablesCW' = [tablesCW EXCEPT !.tableCodeWriter = r.codeWriter,
                                    !.tableDropWriter = r.dropWriter,
                                    !.tableRefs = r.refs]
    /\ root' = SetEntity(root, p, r.elem)
    /\ toasts' = TableToasts(p, r)

DiagramFlushed(w, diagName) ==
    /\ diagramCW' = [diagramCW EXCEPT !.codeWriter = w]
    /\ files' = files \o writeFilePair(w, diagramCW.dropWriter, options, runs,
                    path \o <<"/">> \o dataModelNameOf(root, pos.d) \o <<"_">> \o diagName)

TablesFlushed(w) ==
    /\ tablesCW' = [tablesCW EXCEPT !.tableCodeWriter = w]
    /\ files' = files \o writeFilePair(w, tablesCW.tableDropWriter, options, runs,
                    path \o <<"/">> \o dataModelNameOf(root, pos.d) \o <<"_table">>)

\* lines 679-684: generateTable of one entity of the diagram
GenerateDiagramTable ==
    /\ pc = "diagram"
    /\ pos.k <= Len(OwnedAt(root, pos.d, pos.e).ownedElements)
    /\ DiagramTableGenerated(<<pos.d, pos.e, pos.k>>,
            generateTable(diagramCW.codeWriter, diagramCW.dropWriter, root,
                          <<pos.d, pos.e, pos.k>>, options,
                          schemaNameOf(root, pos.d, options),
                          stringTag(T_prefix, OwnedAt(root, pos.d, pos.e)),
                          tablesCW.refs))
    /\ pos' = [pos EXCEPT !.k = @ + 1]
    /\ UNCHANGED <<call, ret, options, pc, schemaCW, files, dialogs, runs>>

\* lines 685-698: the references are added and the diagram's files written
FlushDiagram ==
    /\ pc = "diagram"
    /\ pos.k > Len(OwnedAt(root, pos.d, pos.e).ownedElements)
    /\ DiagramFlushed(writeLines(diagramCW.codeWriter, tablesCW.refs),
                      toLowerCase(replaceAll(OwnedAt(root, pos.d, pos.e).name, " ", "_")))
    /\ pc' = "generateTables"
    /\ pos' = [pos EXCEPT !.e = @ + 1, !.k = 0]
    /\ UNCHANGED <<call, ret, root, options, schemaCW, tablesCW, toasts, dialogs, runs>>

\* lines 699-705: generateTable of an entity the data model owns itself
GenerateFlatTable ==
    /\ pc = "generateTables"
    /\ pos.e <= Len(DataModelAt(root, pos.d).ownedElements)
    /\ OwnedAt(root, pos.d, pos.e).kind = "ERDEntity"
    /\ FlatTableGenerated(<<pos.d, pos.e, 0>>,
            generateTable(tablesCW.tableCodeWriter, tablesCW.tableDropWriter, root,
                          <<pos.d, pos.e, 0>>, options,
                          schemaNameOf(root, pos.d, options), <<>>, tablesCW.tableRefs))
    /\ pos' = [pos EXCEPT !.e = @ + 1]
    /\ UNCHANGED <<call, ret, options, pc, schemaCW, diagramCW, files, dialogs, runs>>

\* lines 708-720: the flat table group's references and files
FlushTables ==
    /\ pc = "generateTables"
    /\ pos.e > Len(DataModelAt(root, pos.d).ownedElements)
    /\ TablesFlushed(IF hasContent(tablesCW.tableCodeWriter)
                     THEN writeLines(tablesCW.tableCodeWriter, tablesCW.tableRefs)
                     ELSE tablesCW.tableCodeWriter)
    /\ pc' = "addSchema"
    /\ UNCHANGED <<call, ret, root, options, pos, schemaCW, diagramCW, toasts, dialogs, runs>>

\* lines 571-587: the data model's schema joins the schema buffers
AddSchema ==
    /\ pc = "addSchema"
    /\ schemaCW' = addSchema(schemaCW, root, pos.d, options)
    /\ pc' = "generateSchema"
    /\ pos' = [d |-> pos.d + 1, e |-> 0, k |-> 0]
    /\ UNCHANGED <<call, ret, root, options, tablesCW, diagramCW, files, toasts,
                   dialogs, runs>>

\* the schema files put where the database files of the run end
WriteSchemaAhead ==
    /\ pc = "generateSchema"
    /\ pos.d > Len(root.ownedElements)
    /\ files' = SelectSeq(files, LAMBDA f : f.run < runs \/ f.file[2] = "/db")
                \o writeFilePair(schemaCW.codeWriter, schemaCW.dropWriter, options, runs,
                                 path \o <<"/schema">>)
                \o SelectSeq(files, LAMBDA f : ~(f.run < runs \/ f.file[2] = "/db"))
    /\ dialogs' = Append(dialogs, [kind |-> "info", run |-> runs,
                                   text |-> <<"Project DDL files generated in ">> \o path])
    /\ pc' = "idle"
    /\ UNCHANGED <<call, ret, root, options, pos, schemaCW, tablesCW, diagramCW,
                   toasts, runs>>

\* lines 590-599 and 740: the schema files, and the dialog that ends the run
WriteSchema ==
    /\ pc = "generateSchema"
    /\ pos.d > Len(root.ownedElements)
    /\ files' = files \o writeFilePair(schemaCW.codeWriter, schemaCW.dropWriter, options, runs,
                                       path \o <<"/schema">>)
    /\ dialogs' = Append(dialogs, [kind |-> "info", run |-> runs,
                                   text |-> <<"Project DDL files generated in ">> \o path])
    /\ pc' = "idle"
    /\ UNCHANGED <<call, ret, root, options, pos, schemaCW, tablesCW, diagramCW,
                   toasts, runs>>

Next ==
    \/ Generate
    \/ GenerateDatabase
    \/ SkipOwnedElement
    \/ GenerateFunctions
    \/ GenerateProcedures
    \/ EnterDiagram
    \/ GenerateDiagramTable
    \/ FlushDiagram
    \/ GenerateFlatTable
    \/ FlushTables
    \/ AddSchema
    \/ WriteSchema

---------------------------------------------------------------------------
(* The model graphs and options the runs are checked over *)

Column(name, type, length) ==
    [kind |-> "ERDColumn", name |-> name, tags |-> <<>>, type |-> type, length |-> length,
     primaryKey |-> FALSE, unique |-> FALSE, foreignKey |-> FALSE, nullable |-> TRUE,
     referenceTo |-> <<>>, documentation |-> <<>>, is_enum |-> FALSE]
Entity(name, columns) ==
    [kind |-> "ERDEntity", name |-> name, tags |-> <<>>, columns |-> columns,
     documentation |-> <<>>]
Diagram(name, prefix_, entities) ==
    [kind |-> "ERDDiagram", name |-> name,
     tags |-> IF prefix_ = <<>> THEN <<>> ELSE <<StringTag(T_prefix, prefix_)>>,
     ownedElements |-> entities]
DataModel(name, tags, owned) ==
    [kind |-> "ERDDataModel", name |-> name, tags |-> tags, documentation |-> <<>>,
     ownedElements |-> owned]
Root(kind, name, tags, owned) ==
    [kind |-> kind, name |-> name, author |-> <<"a">>, tags |-> tags,
     documentation |-> <<>>, ownedElements |-> owned]

Options(drop, fk, inserts) ==
    [dropStatements |-> drop, foreignKeyConstraint |-> fk, tableInserts |-> inserts,
     owner |-> <<"postgres">>, encoding |-> <<"UTF8">>, tablespace |-> <<"pg_default">>,
     collation |-> <<"default">>, function |-> <<"function">>,
     procedure |-> <<"procedure">>, trigger |-> <<"trigger">>]

T_INTEGER == <<"I", "N", "T", "E", "G", "E", "R">>
T_VARCHAR == <<"V", "A", "R", "C", "H", "A", "R">>
IdColumn == [Column(<<"I", "d">>, T_INTEGER, Length(-1)) EXCEPT !.primaryKey = TRUE]
EnumColumn(name) ==
    [Column(name, T_enum, NoLength) EXCEPT !.tags = <<StringTag(T_enum, <<"a", ",", "b">>)>>]
RefColumn(target) ==
    [Column(<<"r", "e", "f">>, T_INTEGER, NoLength) EXCEPT
        !.foreignKey = TRUE, !.referenceTo = target]

\* the kinds of entity of the runs; j numbers the entity, target is where "fk" refers
EntityKinds == {"plain", "bad", "enum", "fk"}
EntityOfKind(kind, j, target) ==
    CASE kind = "plain" -> Entity(<<"T">> \o NatText(j), <<IdColumn>>)
      [] kind = "bad"   -> Entity(<<"O", " ", "I", "!">> \o NatText(j), <<IdColumn>>)
      [] kind = "enum"  -> Entity(<<"E">> \o NatText(j),
                                  <<IdColumn, EnumColumn(<<"S", "t">>),
                                    EnumColumn(<<"n", "o", "!">>)>>)
      [] kind = "fk"    -> Entity(<<"F">> \o NatText(j), <<IdColumn, RefColumn(target)>>)

MaxOwned == 2      \* owned elements of a data model
MaxEntities == 2   \* entities of a data model, its diagrams' included

SeqsUpTo(S, n) == UNION {[1..m -> S] : m \in 0..n}

\* a shape: per owned element, the kind of an entity, or the kinds of a diagram's entities
ElementShapes(kinds) ==
    {[diagram |-> FALSE, kinds |-> <<k>>] : k \in kinds}
    \cup {[diagram |-> TRUE, kinds |-> ks] : ks \in SeqsUpTo(kinds, MaxEntities)}
RECURSIVE EntityCount(_)
EntityCount(shape) ==
    IF shape = <<>> THEN 0 ELSE Len(Head(shape).kinds) + EntityCount(Tail(shape))
OwnedShapes(kinds) ==
    {shape \in SeqsUpTo(ElementShapes(kinds), MaxOwned) : EntityCount(shape) <= MaxEntities}

\* the entities of a shape in the order generateTables meets them
RECURSIVE EntityPaths(_, _, _)
EntityPaths(shape, d, e) ==
    IF e > Len(shape) THEN <<>>
    ELSE (IF shape[e].diagram
          THEN [k \in 1..Len(shape[e].kinds) |-> <<d, e, k>>]
          ELSE <<<<d, e, 0>>>>)
         \o EntityPaths(shape, d, e + 1)

IndexOfPath(paths, p) == CHOOSE j \in 1..Len(paths) : paths[j] = p
\* entity j refers to the first column of the entity met after it, the last to the first
TargetOf(paths, j) == paths[(j % Len(paths)) + 1] \o <<1>>

OwnedOfShape(shape, d) ==
    LET paths == EntityPaths(shape, d, 1)
        Ent(p, kind) == EntityOfKind(kind, IndexOfPath(paths, p),
                                     TargetOf(paths, IndexOfPath(paths, p)))
    IN [e \in 1..Len(shape) |->
          IF shape[e].diagram
          THEN Diagram(<<"D">> \o NatText(e), <<"p">> \o NatText(e) \o <<"_">>,
                       [k \in 1..Len(shape[e].kinds) |-> Ent(<<d, e, k>>, shape[e].kinds[k])])
          ELSE Ent(<<d, e, 0>>, shape[e].kinds[1])]

\* an owned element of the root that is no data model
OtherModel == [kind |-> "UMLModel", name |-> <<"U">>, tags |-> <<>>,
               documentation |-> <<>>, ownedElements |-> <<>>]

\* a project of one data model (its second owned element) of every shape
TableGraphs ==
    {Root("Project", <<"d", "b">>, <<>>,
          <<OtherModel, DataModel(<<"M", "1">>, <<>>, OwnedOfShape(shape, 2))>>) :
        shape \in OwnedShapes(EntityKinds)}

InitTables ==
    \E g \in TableGraphs, fk \in BOOLEAN : InitRun(g, Options(TRUE, fk, FALSE))

SpecTables == InitTables /\ [][Next]_vars

MaxDataModels == 1

\* the data models of the file runs: with or without a schema, routines, tables
FileShapes == {<<>>,
               <<[diagram |-> FALSE, kinds |-> <<"plain">>]>>,
               <<[diagram |-> TRUE, kinds |-> <<"plain">>]>>,
               <<[diagram |-> TRUE, kinds |-> <<"plain">>],
                 [diagram |-> FALSE, kinds |-> <<"plain">>]>>}
FileDataModel(hasSchema, hasRoutines, shape, d) ==
    DataModel(<<"M", " ">> \o NatText(d),
              (IF hasSchema THEN <<StringTag(T_schema, <<"S", "1">>)>> ELSE <<>>)
              \o (IF hasRoutines
                  THEN <<RoutineTag(<<"f">>, <<"body">>, <<"function">>),
                         RoutineTag(<<"p">>, <<"body">>, <<"procedure">>)>>
                  ELSE <<>>),
              OwnedOfShape(shape, d))
FileDataModels ==
    UNION {{[d \in 1..n |-> FileDataModel(v[d][1], v[d][2], v[d][3], d)] :
                v \in [1..n -> BOOLEAN \X BOOLEAN \X FileShapes]} : n \in 0..MaxDataModels}

\* the root: a project or not, its name a valid identifier or not, a database tag or not
FileRoots ==
    {Root(kind, nt[1], nt[2], dms \o <<OtherModel>>) :
        kind \in {"Project", "UMLPackage"},
        nt \in {<<<<"M", "y", " ", "D", "b">>, <<>>>>,
                <<<<"d", "b", "!">>, <<>>>>,
                <<<<"d", "b", "!">>, <<StringTag(T_database, <<"M", "a", "i", "n">>)>>>>},
        dms \in FileDataModels}

InitFiles ==
    \E g \in FileRoots, drop \in BOOLEAN : InitRun(g, Options(drop, TRUE, FALSE))

SpecFiles == InitFiles /\ [][Next]_vars

---------------------------------------------------------------------------
(* The methods one at a time: the call is drawn by Init, the action applies it *)

MaxLength == 2        \* column lengths are -MaxLength..MaxLength, or unset
MaxColumns == 2       \* columns of an entity
MaxDocLength == 5     \* characters of an entity's documentation

Lengths == {NoLength} \cup {Length(n) : n \in (0 - MaxLength)..MaxLength}
MapKeys == {e.key : e \in map}
\* types the map does not know, which dataType passes through
OtherTypes == {T_enum, T_serial, <<"u", "u", "i", "d">>,
               <<"m", "y", "s", "e", "r", "i", "a", "l", "s">>}
T_SMALLINT == <<"S", "M", "A", "L", "L", "I", "N", "T">>
T_BIGINT == <<"B", "I", "G", "I", "N", "T">>

UnitCall(fn, elem, opts) == [fn |-> fn, elem |-> elem, options |-> opts]

DataTypeCalls ==
    {UnitCall("dataType", Column(<<"c">>, ty, len), Options(TRUE, TRUE, FALSE)) :
        ty \in MapKeys \cup OtherTypes, len \in Lengths}

\* a column as createEnums leaves it: its type the generated type name
EnumTyped(col) == [col EXCEPT !.type = <<"p", ".", "t", "_", "c">>, !.is_enum = TRUE]

ColumnDeclarationCalls ==
    {UnitCall("columnDeclaration",
              [col EXCEPT !.primaryKey = f[1], !.nullable = f[2],
                          !.tags = IF f[3] THEN <<StringTag(T_default, <<"0">>)>> ELSE <<>>,
                          !.documentation = IF f[4] THEN <<"d">> ELSE <<>>],
              Options(TRUE, TRUE, FALSE)) :
        col \in {Column(<<"C">>, ty, len) :
                    ty \in {T_INTEGER, T_SMALLINT, T_BIGINT, T_VARCHAR} \cup OtherTypes,
                    len \in Lengths}
                \cup {EnumTyped(Column(<<"C">>, T_enum, NoLength))},
        f \in BOOLEAN \X BOOLEAN \X BOOLEAN \X BOOLEAN}

\* the index tags of one column: none, one, or one of each of two indexes
IndexNames == {<<"i", "d", "x", "1">>, <<"1">>}
IndexTags(name) == {IndexTag(name, n, desc) : n \in 1..2, desc \in BOOLEAN}
IndexTagChoices ==
    {<<>>}
    \cup {<<t>> : t \in UNION {IndexTags(name) : name \in IndexNames}}
    \cup {<<t, u>> : t \in IndexTags(<<"i", "d", "x", "1">>), u \in IndexTags(<<"1">>)}

ColumnNames == <<<<"A">>, <<"B">>, <<"C">>, <<"D">>>>

IndexedEntities ==
    {Entity(<<"T">>, [j \in 1..n |->
                [Column(ColumnNames[j], T_INTEGER, NoLength) EXCEPT !.tags = tags[j]]]) :
        n \in 0..MaxColumns, tags \in [1..MaxColumns -> IndexTagChoices]}

WriteUserIndexesCalls ==
    {UnitCall("writeUserIndexes", ent, Options(TRUE, TRUE, FALSE)) : ent \in IndexedEntities}

\* how a column is named: by its display name, by an invalid one, or by a column tag
NamedColumn(j, how) ==
    CASE how = "name"    -> Column(ColumnNames[j], T_INTEGER, NoLength)
      [] how = "invalid" -> Column(ColumnNames[j] \o <<"!">>, T_INTEGER, NoLength)
      [] how = "tag"     -> [Column(<<"x", "!">>, T_INTEGER, NoLength) EXCEPT
                                !.tags = <<StringTag(T_column, <<"K">> \o ColumnNames[j])>>]

KeyedEntities ==
    {Entity(<<"T">>, [j \in 1..n |->
                [NamedColumn(j, c[j][1]) EXCEPT !.primaryKey = c[j][2], !.unique = c[j][3]]]) :
        n \in 0..MaxColumns,
        c \in [1..MaxColumns -> {"name", "invalid", "tag"} \X BOOLEAN \X BOOLEAN]}

DocChars == {"a", "|", "\n", " "}
Documentations == SeqsUpTo(DocChars, MaxDocLength)

DocumentedEntities ==
    {[Entity(<<"T">>, [j \in 1..n |-> Column(ColumnNames[j], T_VARCHAR, Length(1))])
        EXCEPT !.documentation = doc] :
        n \in 1..MaxColumns, doc \in Documentations}

KeyedTableCalls ==
    {UnitCall("generateTable", ent, Options(TRUE, TRUE, FALSE)) : ent \in KeyedEntities}
SeededTableCalls ==
    {UnitCall("generateTable", ent, Options(TRUE, TRUE, inserts)) :
        ent \in DocumentedEntities, inserts \in BOOLEAN}

\* the graph of a call of generateTable: the entity is the one element of a data model
UnitPath == <<1, 1, 0>>
UnitGraph(c) ==
    Root("Project", <<"d", "b">>, <<>>,
         <<DataModel(<<"M">>, <<>>,
                     IF c.fn \in {"generateTable", "writeUserIndexes"}
                     THEN <<c.elem>> ELSE <<>>)>>)
UnitTable == T_public \o <<".">> \o <<"t">>

InitUnit ==
    /\ \/ call \in DataTypeCalls
       \/ call \in ColumnDeclarationCalls
       \/ call \in WriteUserIndexesCalls
       \/ call \in KeyedTableCalls
       \/ call \in SeededTableCalls
    /\ ret = <<>>
    /\ root = UnitGraph(call)
    /\ options = call.options
    /\ pc = "unit"
    /\ pos = StartPos
    /\ schemaCW = NewSchemaCW
    /\ tablesCW = NewTablesCW
    /\ diagramCW = NewDiagramCW
    /\ files = <<>>
    /\ toasts = <<>>
    /\ dialogs = <<>>
    /\ runs = 0

DataTypeCall ==
    /\ call.fn = "dataType"
    /\ ret = <<>>
    /\ ret' = <<dataType(call.elem, options)>>
    /\ UNCHANGED <<call, root, options, pc, pos, schemaCW, tablesCW, diagramCW,
                   files, toasts, dialogs, runs>>

\* lines 316 and 330-331: the line of one column, as generateTable asks for it
ColumnDeclarationCall ==
    /\ call.fn = "columnDeclaration"
    /\ ret = <<>>
    /\ ret' = <<columnDeclaration(columnName(call.elem, options), call.elem, <<>>,
                                  columnDefault(call.elem, options), options)>>
    /\ UNCHANGED <<call, root, options, pc, pos, schemaCW, tablesCW, diagramCW,
                   files, toasts, dialogs, runs>>

WriteUserIndexesCall ==
    /\ call.fn = "writeUserIndexes"
    /\ ret = <<>>
    /\ ret' = <<writeUserIndexes(NewCodeWriter, UnitTable, EntityAt(root, UnitPath), options)>>
    /\ toasts' = toasts \o writeUserIndexesToasts(getIndexColumns(EntityAt(root, UnitPath)),
                                                 options)
    /\ UNCHANGED <<call, root, options, pc, pos, schemaCW, tablesCW, diagramCW,
                   files, dialogs, runs>>

TableGenerated(r) ==
    /\ ret' = <<r>>
    /\ root' = SetEntity(root, UnitPath, r.elem)
    /\ toasts' = toasts \o r.toasts

GenerateTableCall ==
    /\ call.fn = "generateTable"
    /\ ret = <<>>
    /\ TableGenerated(generateTable(NewCodeWriter, NewCodeWriter, root, UnitPath, options,
                                    T_public, <<>>, <<>>))
    /\ UNCHANGED <<call, options, pc, pos, schemaCW, tablesCW, diagramCW,
                   files, dialogs, runs>>

NextUnit ==
    \/ DataTypeCall
    \/ ColumnDeclarationCall
    \/ WriteUserIndexesCall
    \/ GenerateTableCall

SpecUnit == InitUnit /\ [][NextUnit]_vars

\* ---------------------------------------------------------------------------
\* Properties of the generated buffers
\* ---------------------------------------------------------------------------

\* reading a written line back
StartsWith(line, atom) == line.text # <<>> /\ Head(line.text) = atom
Contains(text, sub) ==
    \E i \in 1..(Len(text) - Len(sub) + 1) : SubSeq(text, i, i + Len(sub) - 1) = sub
IsPrefixOf(p, text) == Len(p) <= Len(text) /\ SubSeq(text, 1, Len(p)) = p
AtomAt(text, atom) == CHOOSE i \in 1..Len(text) : text[i] = atom
IsCreateTable(line) == StartsWith(line, "CREATE TABLE ")
IsDropTable(line) == StartsWith(line, "DROP TABLE IF EXISTS ")
IsCreateType(line) == StartsWith(line, "CREATE TYPE ")
IsDropType(line) == StartsWith(line, "DROP TYPE ")
IsFkAlter(line) ==
    StartsWith(line, "ALTER TABLE ") /\ " ADD CONSTRAINT FK_" \in Range(line.text)
TableOfCreate(line) == SubSeq(line.text, 2, Len(line.text) - 1)
TableOfDrop(line) == SubSeq(line.text, 2, Len(line.text) - 1)
TableOfFk(line) == SubSeq(line.text, 2, AtomAt(line.text, " ADD CONSTRAINT FK_") - 1)
TypeOfCreate(line) == SubSeq(line.text, 2, AtomAt(line.text, " AS ENUM(") - 1)
TypeOfDrop(line) == SubSeq(line.text, 2, Len(line.text) - 1)
Count(lines, Test(_)) == Cardinality({i \in 1..Len(lines) : Test(lines[i])})

\* the create buffers of generateTables, as they stand and as they were written
IsTablesFile(f) ==
    LET n == Len(f.file)
    IN f.file[n] = "_create.sql" /\ ~IsPrefixOf(path \o <<"/schema">>, f.file)
       /\ ~IsPrefixOf(path \o <<"/db">>, f.file)
       /\ f.file[n - 1] \notin {"_function", "_procedure"}
CreateBuffers ==
    {diagramCW.codeWriter.lines, tablesCW.tableCodeWriter.lines}
    \cup {files[i].data : i \in {j \in 1..Len(files) : IsTablesFile(files[j])}}

\* C1: in every create buffer of generateTables (a diagram's and the flat
\* table group's, while it is filled and as it is written to its file) every
\* ALTER TABLE ... ADD CONSTRAINT FK_ line lies after every CREATE TABLE line.
C1_ForeignKeysAfterTables ==
    \A buf \in CreateBuffers :
        \A i, j \in 1..Len(buf) :
            (IsFkAlter(buf[i]) /\ IsCreateTable(buf[j])) => j < i

\* a written buffer of two tables in which the first refers to the second
C1_Witness ==
    \E n \in 1..Len(files) :
        /\ IsTablesFile(files[n])
        /\ \E i, j, k \in 1..Len(files[n].data) :
              /\ i < j /\ j < k
              /\ IsCreateTable(files[n].data[i])
              /\ IsCreateTable(files[n].data[j])
              /\ IsFkAlter(files[n].data[k])
              /\ TableOfFk(files[n].data[k]) = TableOfCreate(files[n].data[i])
              /\ Contains(files[n].data[k].text,
                          <<") REFERENCES ">> \o TableOfCreate(files[n].data[j]))

\* the create and drop buffer that belong together
BufferPairs ==
    {<<diagramCW.codeWriter.lines, diagramCW.dropWriter.lines>>,
     <<tablesCW.tableCodeWriter.lines, tablesCW.tableDropWriter.lines>>}
NextAfter(lines, i, Test(_)) ==
    {j \in (i + 1)..Len(lines) :
        Test(lines[j]) /\ \A m \in (i + 1)..(j - 1) : ~Test(lines[m])}
LastBefore(lines, i, Test(_)) ==
    {j \in 1..(i - 1) :
        Test(lines[j]) /\ \A m \in (j + 1)..(i - 1) : ~Test(lines[m])}

\* C2: every CREATE TYPE <table>_<column> line of a create buffer lies before
\* the CREATE TABLE line of its own table (the next one written), every
\* DROP TYPE line of the drop buffer lies after the DROP TABLE line of its own
\* table (the last one written before it), and each CREATE TYPE has exactly one
\* DROP TYPE of the same type name in the drop buffer, and the other way round.
C2_EnumTypesAroundTable ==
    \A pair \in BufferPairs :
        LET cr == pair[1]
            dr == pair[2]
        IN /\ \A i \in 1..Len(cr) :
                 IsCreateType(cr[i]) =>
                    /\ \E j \in NextAfter(cr, i, IsCreateTable) :
                          IsPrefixOf(TableOfCreate(cr[j]) \o <<"_">>, TypeOfCreate(cr[i]))
                    /\ Cardinality({j \in 1..Len(dr) :
                          IsDropType(dr[j]) /\ TypeOfDrop(dr[j]) = TypeOfCreate(cr[i])}) = 1
           /\ \A i \in 1..Len(dr) :
                 IsDropType(dr[i]) =>
                    /\ \E j \in LastBefore(dr, i, IsDropTable) :
                          IsPrefixOf(TableOfDrop(dr[j]) \o <<"_">>, TypeOfDrop(dr[i]))
                    /\ Cardinality({j \in 1..Len(cr) :
                          IsCreateType(cr[j]) /\ TypeOfCreate(cr[j]) = TypeOfDrop(dr[i])}) = 1

\* a diagram's buffers after a table with enum columns was written behind another table
C2_Witness ==
    /\ pc = "diagram"
    /\ \E i, j, k \in 1..Len(diagramCW.codeWriter.lines) :
          /\ i < j /\ j < k
          /\ IsCreateTable(diagramCW.codeWriter.lines[i])
          /\ IsCreateType(diagramCW.codeWriter.lines[j])
          /\ IsCreateTable(diagramCW.codeWriter.lines[k])
    /\ Count(diagramCW.dropWriter.lines, IsDropType) = 2

\* the entities generateTable has been called for in the buffer being filled
TablesDone ==
    IF pc = "diagram"
    THEN SubSeq(OwnedAt(root, pos.d, pos.e).ownedElements, 1, pos.k - 1)
    ELSE IF pc = "generateTables"
    THEN SelectSeq(SubSeq(DataModelAt(root, pos.d).ownedElements, 1, pos.e - 1),
                   LAMBDA el : el.kind = "ERDEntity")
    ELSE <<>>
BufferBeingFilled ==
    IF pc = "diagram"
    THEN <<diagramCW.codeWriter.lines, diagramCW.dropWriter.lines>>
    ELSE <<tablesCW.tableCodeWriter.lines, tablesCW.tableDropWriter.lines>>
HasValidTableName(el) == isValidIdentifier(dbNameOf(T_table, el))
IsTableNameError(t, el) ==
    /\ t.severity = "error"
    /\ StartsWith(t, "Table name is not valid: ")
    /\ IsPrefixOf(el.name, SubSeq(t.text, Len(t.text) - Len(el.name) + 1, Len(t.text)))

\* C3: an entity whose resolved table name fails identifier validation gets an
\* error diagnostic and no CREATE TABLE or DROP TABLE line, and its siblings
\* still get theirs: while a diagram's or the flat group's buffers are filled,
\* they hold one CREATE TABLE and one DROP TABLE line for each entity done
\* whose table name is valid, and none for the others.
C3_InvalidTableSkipped ==
    pc \in {"diagram", "generateTables"} =>
        /\ \A i \in 1..Len(TablesDone) :
              ~HasValidTableName(TablesDone[i]) =>
                  \E n \in 1..Len(toasts) : IsTableNameError(toasts[n], TablesDone[i])
        /\ Count(BufferBeingFilled[1], IsCreateTable)
              = Cardinality({i \in 1..Len(TablesDone) : HasValidTableName(TablesDone[i])})
        /\ Count(BufferBeingFilled[2], IsDropTable)
              = Cardinality({i \in 1..Len(TablesDone) : HasValidTableName(TablesDone[i])})

\* the root is no project, and generateDatabase has returned
NonProjectRun == root.kind # "Project" /\ runs > 0 /\ pc # "generateDatabase"
IsNoProjectError(t) ==
    t.severity = "error" /\ StartsWith(t, "No project found, database DDL generator expects a main project")

\* C4: when the root is not a Project an error is reported and the run aborts:
\* after the error no stage of generateSchema (schema, functions, procedures,
\* tables) runs and no file is written.
C4_NonProjectAborts ==
    NonProjectRun =>
        /\ \E n \in 1..Len(toasts) : IsNoProjectError(toasts[n])
        /\ pc = "idle"
        /\ files = <<>>

IsCreateFile(f) == f.file[Len(f.file)] = "_create.sql"
IsDropFile(f) == f.file[Len(f.file)] = "_drop.sql"
NewFiles == SubSeq(files', Len(files) + 1, Len(files'))
WithDropStatements == [options EXCEPT !.dropStatements = TRUE]

\* the files the generator about to run writes from this state under the options opts
WrittenWith(opts) ==
    CASE pc = "generateDatabase" -> generateDatabase(root, opts, runs).files
      [] pc = "generateSchema" /\ pos.d <= Len(root.ownedElements)
            /\ DataModelAt(root, pos.d).kind = "ERDDataModel" ->
            generateFunctions(DataModelAt(root, pos.d), opts, runs,
                              dataModelNameOf(root, pos.d)).files
      [] pc = "generateProcedures" ->
            generateProcedures(DataModelAt(root, pos.d), opts, runs,
                               dataModelNameOf(root, pos.d)).files
      [] pc = "diagram" /\ pos.k > Len(OwnedAt(root, pos.d, pos.e).ownedElements) ->
            writeFilePair(writeLines(diagramCW.codeWriter, tablesCW.refs),
                          diagramCW.dropWriter, opts, runs,
                          path \o <<"/">> \o dataModelNameOf(root, pos.d) \o <<"_">>
                          \o toLowerCase(replaceAll(OwnedAt(root, pos.d, pos.e).name, " ", "_")))
      [] pc = "generateTables" /\ pos.e > Len(DataModelAt(root, pos.d).ownedElements) ->
            writeFilePair(tablesCW.tableCodeWriter, tablesCW.tableDropWriter, opts, runs,
                          path \o <<"/">> \o dataModelNameOf(root, pos.d) \o <<"_table">>)
      [] pc = "generateSchema" /\ pos.d > Len(root.ownedElements) ->
            writeFilePair(schemaCW.codeWriter, schemaCW.dropWriter, opts, runs,
                          path \o <<"/schema">>)
      [] OTHER -> <<>>
FileNames(fs, Test(_)) == {fs[i].file : i \in {j \in 1..Len(fs) : Test(fs[j])}}

\* C5: with dropStatements disabled no step of any generator (database,
\* schema, function, procedure, diagram tables, flat tables) writes a file
\* whose name ends in _drop.sql, and every step writes the _create.sql files
\* it would write from the same state with the option enabled.
C5_DropFilesSuppressed ==
    [][/\ ~options.dropStatements => \A i \in 1..Len(NewFiles) : ~IsDropFile(NewFiles[i])
       /\ FileNames(NewFiles, IsCreateFile) = FileNames(WrittenWith(WithDropStatements), IsCreateFile)
       /\ options.dropStatements => NewFiles = WrittenWith(WithDropStatements)]_vars

\* a finished run without drop statements that wrote the create file of every generator
C5_Witness ==
    /\ ~options.dropStatements
    /\ pc = "idle"
    /\ runs = 1
    /\ Cardinality(FileNames(files, IsCreateFile)) = 6
    /\ \A i \in 1..Len(files) : IsCreateFile(files[i])

\* ---------------------------------------------------------------------------
\* Properties of single calls
\* ---------------------------------------------------------------------------

Returned(fn) == call.fn = fn /\ ret # <<>>
FirstAtom(text, atom) ==
    CHOOSE i \in 1..Len(text) : text[i] = atom /\ \A j \in 1..(i - 1) : text[j] # atom
RECURSIVE ItemsOf(_, _)
ItemsOf(text, sep) ==
    IF sep \notin Range(text) THEN <<text>>
    ELSE <<SubSeq(text, 1, FirstAtom(text, sep) - 1)>>
         \o ItemsOf(SubSeq(text, FirstAtom(text, sep) + 1, Len(text)), sep)
RECURSIVE Joined(_, _)
Joined(parts, sep) ==
    IF parts = <<>> THEN <<>>
    ELSE IF Len(parts) = 1 THEN parts[1]
    ELSE parts[1] \o <<sep>> \o Joined(Tail(parts), sep)

IsPrimaryKey(line) == StartsWith(line, "PRIMARY KEY (")
PrimaryKeyListed(line) == ItemsOf(SubSeq(line.text, 2, Len(line.text) - 1), ", ")
IsFlagged(col) == col.primaryKey
HasValidColumnName(col) == isValidIdentifier(dbNameOf(T_column, col))
IsFlaggedAndNamed(col) == col.primaryKey /\ HasValidColumnName(col)
ResolvedNames(cols) == [j \in 1..Len(cols) |-> toLowerCase(dbNameOf(T_column, cols[j]))]

\* C6 as stated: the PRIMARY KEY clause generateTable writes lists exactly the
\* columns flagged primaryKey, in declaration order, and is absent iff no
\* column is flagged.
C6_PrimaryKeyAllFlagged ==
    Returned("generateTable") =>
        /\ (Count(ret[1].codeWriter.lines, IsPrimaryKey) = 0)
              <=> (SelectSeq(call.elem.columns, IsFlagged) = <<>>)
        /\ \A i \in 1..Len(ret[1].codeWriter.lines) :
              IsPrimaryKey(ret[1].codeWriter.lines[i]) =>
                 PrimaryKeyListed(ret[1].codeWriter.lines[i])
                    = ResolvedNames(SelectSeq(call.elem.columns, IsFlagged))

\* C6: the PRIMARY KEY clause generateTable writes lists, by resolved name and
\* in declaration order, exactly the columns flagged primaryKey whose resolved
\* name passes identifier validation; there is at most one clause, and it is
\* absent iff there is no such column.
C6_PrimaryKeyFlaggedAndNamed ==
    Returned("generateTable") =>
        /\ Count(ret[1].codeWriter.lines, IsPrimaryKey) <= 1
        /\ (Count(ret[1].codeWriter.lines, IsPrimaryKey) = 0)
              <=> (SelectSeq(call.elem.columns, IsFlaggedAndNamed) = <<>>)
        /\ \A i \in 1..Len(ret[1].codeWriter.lines) :
              IsPrimaryKey(ret[1].codeWriter.lines[i]) =>
                 PrimaryKeyListed(ret[1].codeWriter.lines[i])
                    = ResolvedNames(SelectSeq(call.elem.columns, IsFlaggedAndNamed))

\* a table of two flagged columns, the first without a valid name, written
\* with a clause of the second alone
C6_Witness ==
    /\ Returned("generateTable")
    /\ Len(call.elem.columns) = 2
    /\ call.elem.columns[1].primaryKey /\ ~HasValidColumnName(call.elem.columns[1])
    /\ call.elem.columns[2].primaryKey /\ HasValidColumnName(call.elem.columns[2])
    /\ \E i \in 1..Len(ret[1].codeWriter.lines) :
          /\ IsPrimaryKey(ret[1].codeWriter.lines[i])
          /\ Len(PrimaryKeyListed(ret[1].codeWriter.lines[i])) = 1

IsSentinel(len) == len.has /\ len.n = -1
Text_serial == <<"s", "e", "r", "i", "a", "l">>
Text_smallserial == <<"s", "m", "a", "l", "l">> \o Text_serial
Text_bigserial == <<"b", "i", "g">> \o Text_serial

\* C7: dataType maps INTEGER, SMALLINT and BIGINT to serial, smallserial and
\* bigserial when the length is exactly -1 and to integer, smallint and bigint
\* for every other length and for none; for any other type the result holds a
\* serial spelling only when the type is passed through and holds it itself.
C7_SerialOnlyForIntegerKinds ==
    Returned("dataType") =>
        /\ call.elem.type = T_INTEGER =>
              ret[1] = IF IsSentinel(call.elem.length) THEN Text_serial
                       ELSE <<"i", "n", "t", "e", "g", "e", "r">>
        /\ call.elem.type = T_SMALLINT =>
              ret[1] = IF IsSentinel(call.elem.length) THEN Text_smallserial
                       ELSE <<"s", "m", "a", "l", "l", "i", "n", "t">>
        /\ call.elem.type = T_BIGINT =>
              ret[1] = IF IsSentinel(call.elem.length) THEN Text_bigserial
                       ELSE <<"b", "i", "g", "i", "n", "t">>
        /\ call.elem.type \notin {T_INTEGER, T_SMALLINT, T_BIGINT} =>
              (Contains(ret[1], Text_serial) =>
                  ret[1] = call.elem.type /\ call.elem.type \notin MapKeys)

\* a SMALLINT column of length -1, mapped to smallserial
C7_Witness ==
    /\ Returned("dataType")
    /\ call.elem.type = T_SMALLINT
    /\ IsSentinel(call.elem.length)
    /\ ret[1] = Text_smallserial

HasDefaultTag(col) == \E i \in 1..Len(col.tags) : col.tags[i].name = T_default
DefaultTagValue(col) ==
    col.tags[CHOOSE i \in 1..Len(col.tags) : col.tags[i].name = T_default].value
WithoutDefault(line, col) == SubSeq(line, 1, Len(line) - 1 - Len(DefaultTagValue(col)))

\* C8: the line columnDeclaration returns holds no DEFAULT clause when the
\* mapped type contains serial, whatever default tag the column carries;
\* otherwise the clause of the default tag, when there is one, ends the line,
\* behind the NOT NULL of a primaryKey or non-nullable column.
C8_NoDefaultOnSerial ==
    Returned("columnDeclaration") =>
        IF Contains(dataType(call.elem, options), Text_serial) \/ ~HasDefaultTag(call.elem)
        THEN " DEFAULT " \notin Range(ret[1].line)
        ELSE /\ IsPrefixOf(WithoutDefault(ret[1].line, call.elem) \o <<" DEFAULT ">>
                           \o DefaultTagValue(call.elem), ret[1].line)
             /\ Len(ret[1].line) = Len(WithoutDefault(ret[1].line, call.elem)) + 1
                                   + Len(DefaultTagValue(call.elem))
             /\ " DEFAULT " \notin Range(WithoutDefault(ret[1].line, call.elem))
             /\ (call.elem.primaryKey \/ ~call.elem.nullable)
                   <=> (WithoutDefault(ret[1].line, call.elem)
                           [Len(WithoutDefault(ret[1].line, call.elem))] = " NOT NULL")

\* an auto-increment column that carries a default tag, declared
C8_Witness ==
    /\ Returned("columnDeclaration")
    /\ call.elem.type = T_INTEGER /\ IsSentinel(call.elem.length)
    /\ HasDefaultTag(call.elem)
    /\ " NOT NULL" \in Range(ret[1].line)

IsCreateIndex(line) == StartsWith(line, "CREATE INDEX ON ")
IsIndexTag(t) == t.value = T_index
\* the index annotations of an entity, in declaration order
RECURSIVE Annotations(_)
Annotations(cols) ==
    IF cols = <<>> THEN <<>>
    ELSE [i \in 1..Len(SelectSeq(Head(cols).tags, IsIndexTag)) |->
            [column |-> toLowerCase(dbNameOf(T_column, Head(cols))),
             tag |-> SelectSeq(Head(cols).tags, IsIndexTag)[i]]]
         \o Annotations(Tail(cols))
AnnotatedNames(ent) ==
    {Annotations(ent.columns)[i].tag.name : i \in 1..Len(Annotations(ent.columns))}
GroupOf(ent, name) ==
    SelectSeq(Annotations(ent.columns), LAMBDA a : a.tag.name = name)
\* the place of the i-th annotation of a group in ascending sequence number
RankIn(group, i) ==
    1 + Cardinality({j \in 1..Len(group) :
                        \/ group[j].tag.number < group[i].tag.number
                        \/ group[j].tag.number = group[i].tag.number /\ j < i})
Ordered(group) ==
    [r \in 1..Len(group) |-> group[CHOOSE i \in 1..Len(group) : RankIn(group, i) = r]]
ColumnList(group) ==
    Joined([r \in 1..Len(group) |->
              IF Ordered(group)[r].tag.checked
              THEN Ordered(group)[r].column \o <<" DESC">>
              ELSE Ordered(group)[r].column], ", ")

\* C9: for every distinct index name of the index annotations of an entity's
\* columns writeUserIndexes writes exactly one CREATE INDEX ON <table>
\* statement, whose column list is the group's columns in ascending sequence
\* number, ties in declaration order, each followed by DESC iff its
\* descending flag is set.
C9_OneIndexPerName ==
    Returned("writeUserIndexes") =>
        /\ Count(ret[1].lines, IsCreateIndex) = Cardinality(AnnotatedNames(call.elem))
        /\ \A name \in AnnotatedNames(call.elem) :
              Cardinality({i \in 1..(Len(ret[1].lines) - 1) :
                  /\ ret[1].lines[i].text = <<"CREATE INDEX ON ">> \o UnitTable
                  /\ ret[1].lines[i + 1].text
                        = <<"(">> \o ColumnList(GroupOf(call.elem, name)) \o <<");">>}) = 1

\* the lines of a documentation text; a line break that ends the text opens no line
LinesOf(text) ==
    IF text = <<>> THEN <<>>
    ELSE IF text[Len(text)] = "\n" THEN ItemsOf(SubSeq(text, 1, Len(text) - 1), "\n")
    ELSE ItemsOf(text, "\n")
ValueOf(fields, i) ==
    IF i <= Len(fields) /\ fields[i] # <<>> THEN <<" '">> \o fields[i] \o <<"' ">>
    ELSE <<" null ">>
InsertOf(ent, line) ==
    <<"INSERT INTO ">> \o UnitTable \o <<" (">>
    \o Joined(ResolvedNames(ent.columns), ",") \o <<" ) VALUES ( ">>
    \o Joined([i \in 1..Len(ent.columns) |-> ValueOf(ItemsOf(line, "|"), i)], ",")
    \o <<" ); ">>
IsInsert(line) == StartsWith(line, "INSERT INTO ")
IsTableComment(line) == StartsWith(line, "COMMENT ON TABLE ")
Inserts(lines) == SelectSeq(lines, IsInsert)
SeedInsertCall == Returned("generateTable") /\ options.tableInserts

\* C10 as stated: with tableInserts enabled generateTable writes one INSERT
\* INTO statement for each line of the entity's documentation, its fields
\* between the pipes given to the columns in declaration order, a missing or
\* empty field as null, and writes no COMMENT ON TABLE.
C10_InsertPerLine ==
    SeedInsertCall =>
        /\ Len(Inserts(ret[1].codeWriter.lines)) = Len(LinesOf(call.elem.documentation))
        /\ \A k \in 1..Len(Inserts(ret[1].codeWriter.lines)) :
              k <= Len(LinesOf(call.elem.documentation)) =>
                 Inserts(ret[1].codeWriter.lines)[k].text
                    = InsertOf(call.elem, LinesOf(call.elem.documentation)[k])
        /\ Count(ret[1].codeWriter.lines, IsTableComment) = 0

\* the text with the white space at its two ends taken off
RECURSIVE Stripped(_)
Stripped(text) ==
    IF text = <<>> THEN <<>>
    ELSE IF text[1] \in {" ", "\n", "\t", "\r"} THEN Stripped(Tail(text))
    ELSE IF text[Len(text)] \in {" ", "\n", "\t", "\r"}
    THEN Stripped(SubSeq(text, 1, Len(text) - 1))
    ELSE text

\* C10: with tableInserts enabled generateTable writes one INSERT INTO
\* statement for each line of the entity's documentation after the white
\* space at its two ends is taken off (none when nothing is left), the fields
\* between the pipes given to the columns in declaration order, a missing or
\* empty field as null, and writes no COMMENT ON TABLE.
C10_InsertPerTrimmedLine ==
    SeedInsertCall =>
        /\ Len(Inserts(ret[1].codeWriter.lines))
              = Len(LinesOf(Stripped(call.elem.documentation)))
        /\ \A k \in 1..Len(Inserts(ret[1].codeWriter.lines)) :
              Inserts(ret[1].codeWriter.lines)[k].text
                 = InsertOf(call.elem, LinesOf(Stripped(call.elem.documentation))[k])
        /\ Count(ret[1].codeWriter.lines, IsTableComment) = 0

\* two columns seeded from two lines, the second line with an empty first
\* field and the first with no second field
C10_Witness ==
    /\ SeedInsertCall
    /\ Len(call.elem.columns) = 2
    /\ call.elem.documentation = <<" ", "a", "\n", "|", "a">>
    /\ Len(Inserts(ret[1].codeWriter.lines)) = 2
    /\ Inserts(ret[1].codeWriter.lines)[1].text
          = <<"INSERT INTO ">> \o UnitTable
            \o <<" (", "a", ",", "b", " ) VALUES ( ", " '", "a", "' ", ",", " null ", " ); ">>
    /\ Inserts(ret[1].codeWriter.lines)[2].text
          = <<"INSERT INTO ">> \o UnitTable
            \o <<" (", "a", ",", "b", " ) VALUES ( ", " null ", ",", " '", "a", "' ", " ); ">>

\* ---------------------------------------------------------------------------
\* Properties of the files of a run
\* ---------------------------------------------------------------------------

IsDatabaseFile(f) == IsPrefixOf(path \o <<"/db">>, f.file)
IsSchemaFile(f) == IsPrefixOf(path \o <<"/schema">>, f.file)
IsFunctionFile(f) == f.file[Len(f.file) - 1] = "_function"
IsProcedureFile(f) == f.file[Len(f.file) - 1] = "_procedure"
IsModelFile(f) == ~IsDatabaseFile(f) /\ ~IsSchemaFile(f)
IsTableFile(f) == IsModelFile(f) /\ ~IsFunctionFile(f) /\ ~IsProcedureFile(f)
\* the data model a function, procedure or flat table file is named after
ModelOfFile(f) == SubSeq(f.file, 3, Len(f.file) - 2)
StageOf(f) == IF IsFunctionFile(f) THEN 1 ELSE IF IsProcedureFile(f) THEN 2 ELSE 3
FilePairsInRun(r) == {<<i, j>> \in (1..Len(files)) \X (1..Len(files)) :
                        files[i].run = r /\ files[j].run = r}

\* C11 as stated: in every run the database file pair is written before the
\* schema file pair, and the schema file pair before every function,
\* procedure and table file of a data model.
C11_SchemaBeforeModels ==
    \A r \in 1..runs : \A p \in FilePairsInRun(r) :
        /\ (IsDatabaseFile(files[p[1]]) /\ IsSchemaFile(files[p[2]])) => p[1] < p[2]
        /\ (IsSchemaFile(files[p[1]]) /\ IsModelFile(files[p[2]])) => p[1] < p[2]

\* C11: in every run the database file pair is written before every other
\* file, a data model's function file before its procedure file and that
\* before its table files, and the schema file pair after every function,
\* procedure and table file of the run; the files of a run follow those of
\* the run before.
C11_SchemaAfterModels ==
    \A j \in 1..Len(files) : \A i \in 1..(j - 1) :
        /\ files[i].run <= files[j].run
        /\ files[i].run = files[j].run =>
              /\ IsDatabaseFile(files[j]) => IsDatabaseFile(files[i])
              /\ IsSchemaFile(files[i]) => ~IsModelFile(files[j])
              /\ ~(/\ IsModelFile(files[i]) /\ IsModelFile(files[j])
                   /\ ~IsTableFile(files[j])
                   /\ StageOf(files[j]) < StageOf(files[i])
                   /\ IsPrefixOf(ModelOfFile(files[j]),
                                 SubSeq(files[i].file, 3, Len(files[i].file))))

\* a finished run that wrote the file pair of every stage
C11_Witness ==
    /\ pc = "idle"
    /\ runs = 1
    /\ options.dropStatements
    /\ \E d, f, p, t, s \in 1..Len(files) :
          /\ d < f /\ f < p /\ p < t /\ t < s
          /\ IsDatabaseFile(files[d]) /\ IsFunctionFile(files[f])
          /\ IsProcedureFile(files[p]) /\ IsTableFile(files[t])
          /\ IsSchemaFile(files[s]) /\ IsDropFile(files[s])


\* ---------------------------------------------------------------------------
\* Properties of the diagrams' foreign keys
\* ---------------------------------------------------------------------------

DiagramFileOf(d, e) ==
    path \o <<"/">> \o dataModelNameOf(root, d) \o <<"_">>
    \o toLowerCase(replaceAll(OwnedAt(root, d, e).name, " ", "_")) \o <<"_create.sql">>
Diagrams ==
    {p \in (1..Len(root.ownedElements)) \X (1..MaxOwned) :
        /\ p[2] <= Len(DataModelAt(root, p[1]).ownedElements)
        /\ OwnedAt(root, p[1], p[2]).kind = "ERDDiagram"}
\* the create files of the diagram in a run
FilesOfDiagram(r, p) ==
    {i \in 1..Len(files) : files[i].run = r /\ files[i].file = DiagramFileOf(p[1], p[2])}
\* the tables of the diagram's own entities, as generateTable names them
TablesOfDiagram(p) ==
    {schemaNameOf(root, p[1], options) \o <<".">>
       \o stringTag(T_prefix, OwnedAt(root, p[1], p[2]))
       \o tableName(OwnedAt(root, p[1], p[2]).ownedElements[k], options) :
         k \in 1..Len(OwnedAt(root, p[1], p[2]).ownedElements)}
ForeignKeysOf(f) == SelectSeq(f.data, IsFkAlter)

\* C12: the create file of a diagram holds the FK ALTER statements of the
\* diagram's own entities only, each of them once; no FK ALTER statement is in
\* the create files of two diagrams of a run; and a diagram without entities
\* has no file.
C12_ForeignKeysPerDiagram ==
    \A r \in 1..runs : \A p \in Diagrams : \A i \in FilesOfDiagram(r, p) :
        LET fks == ForeignKeysOf(files[i])
        IN /\ OwnedAt(root, p[1], p[2]).ownedElements # <<>>
           /\ \A k \in 1..Len(fks) : TableOfFk(fks[k]) \in TablesOfDiagram(p)
           /\ \A k, m \in 1..Len(fks) : k # m => fks[k] # fks[m]
           /\ \A q \in Diagrams \ {p} : \A j \in FilesOfDiagram(r, q) :
                 \A k \in 1..Len(fks) :
                    fks[k] \notin Range(ForeignKeysOf(files[j]))


\* ---------------------------------------------------------------------------
\* Properties of a second run
\* ---------------------------------------------------------------------------

\* the entities of the data models, a diagram's included
EntityPathsOf(g) ==
    {p \in (1..Len(g.ownedElements)) \X (1..MaxOwned) \X (0..MaxEntities) :
        /\ p[2] <= Len(DataModelAt(g, p[1]).ownedElements)
        /\ IF p[3] = 0
           THEN OwnedAt(g, p[1], p[2]).kind = "ERDEntity"
           ELSE /\ OwnedAt(g, p[1], p[2]).kind = "ERDDiagram"
                /\ p[3] <= Len(OwnedAt(g, p[1], p[2]).ownedElements)}
\* generateTable marks the columns it rewrites with is_enum
RewrittenColumns ==
    {<<p, c>> \in EntityPathsOf(root) \X (1..(MaxColumns + 1)) :
        /\ c <= Len(EntityAt(root, p).columns)
        /\ EntityAt(root, p).columns[c].is_enum}
IsTableStatement(line) ==
    IsCreateType(line) \/ IsCreateTable(line) \/ IsDropTable(line) \/ IsDropType(line)
TableStatements(f) == SelectSeq(f.data, IsTableStatement)
FilesOfRun(r) == SelectSeq(files, LAMBDA f : f.run = r /\ IsTableFile(f))
SecondRunDone == pc = "idle" /\ runs = 2

\* C13 (types): once generateTable has returned, every column it rewrote to
\* the generated type name has the type 'enum' again, the column of an
\* entity whose enum column's name fails validation included.
C13_ColumnTypesRestored ==
    \A x \in RewrittenColumns : EntityAt(root, x[1]).columns[x[2]].type = T_enum

\* C13 (statements): the table files of a second run are those of the first,
\* with the same CREATE TYPE, CREATE TABLE and DROP statements in each.
C13_SecondRunRepeats ==
    SecondRunDone =>
        /\ Len(FilesOfRun(1)) = Len(FilesOfRun(2))
        /\ \A i \in 1..Len(FilesOfRun(1)) :
              /\ FilesOfRun(1)[i].file = FilesOfRun(2)[i].file
              /\ TableStatements(FilesOfRun(1)[i]) = TableStatements(FilesOfRun(2)[i])


\* C13: once generateTable has returned every rewritten column has the type
\* 'enum' again, and the table files of a second run are those of the first
\* with the same CREATE TYPE, CREATE TABLE and DROP statements.
C13_GenerationRepeatable == C13_ColumnTypesRestored /\ C13_SecondRunRepeats

====
